---------------------------- MODULE Spec2Model ----------------------------
(***************************************************************************)
(* A model of gx: the tool-call-mediated generation loop of                *)
(* internal/gemini/client.go, the tool registry of                         *)
(* internal/tools/registry.go and the file tools it dispatches to.         *)
(*                                                                         *)
(* Representation of Go values:                                            *)
(*   - a Go string that the code cuts, joins, trims or searches is a       *)
(*     sequence of one-character strings (<<"l","s">> is "ls");            *)
(*   - a name the code only compares (a tool name, an error message, a     *)
(*     block header) is a TLA+ string;                                     *)
(*   - a value of type any in an argument map is a record [t, v]: its      *)
(*     dynamic type and its value.                                         *)
(***************************************************************************)
EXTENDS Integers, Sequences, FiniteSets, TLC

(***************************************************************************)
(* Bounds of the model.                                                    *)
(***************************************************************************)
\* the number of parts the scripted model produces over one invocation
MaxParts == 3
\* the largest number of tool-calling turns the scripted model takes
MaxTurns == 2
\* the largest number of calls of Manager.Append in a row
MaxAppends == 13
\* the turns a model that always calls is followed for
MaxCalls == 4

(***************************************************************************)
(* Strings.                                                                *)
(***************************************************************************)
Whitespace == {" ", "\n", "\t", "\r"}

RECURSIVE TrimLeft(_)
TrimLeft(s) ==
    IF s = <<>> THEN <<>>
    ELSE IF Head(s) \in Whitespace THEN TrimLeft(Tail(s)) ELSE s

RECURSIVE TrimRight(_)
TrimRight(s) ==
    IF s = <<>> THEN <<>>
    ELSE IF s[Len(s)] \in Whitespace THEN TrimRight(SubSeq(s, 1, Len(s) - 1)) ELSE s

\* strings.TrimSpace
TrimSpace(s) == TrimRight(TrimLeft(s))

\* strings.Join
RECURSIVE Join(_, _)
Join(elems, sep) ==
    IF elems = <<>> THEN <<>>
    ELSE IF Len(elems) = 1 THEN elems[1]
    ELSE elems[1] \o sep \o Join(Tail(elems), sep)

\* all sequences over S of length at most n
RECURSIVE SeqsUpTo(_, _)
SeqsUpTo(S, n) ==
    IF n = 0 THEN {<<>>}
    ELSE LET shorter == SeqsUpTo(S, n - 1)
         IN  shorter \cup {Append(s, x) : s \in {t \in shorter : Len(t) = n - 1}, x \in S}

(***************************************************************************)
(* Strings of the model, as character sequences.                           *)
(***************************************************************************)
Empty == <<>>
S_notes == <<"n", "o", "t", "e", "s">>
S_gone == <<"g", "o", "n", "e">>
S_big == <<"b", "i", "g">>
S_etc == <<"e", "t", "c">>
S_dot == <<".">>
S_full == <<"f", "u", "l", "l">>
S_under == <<"u", "n", "d", "e", "r">>
S_huge == <<"h", "u", "g", "e">>
S_void == <<"v", "o", "i", "d">>
S_locked == <<"l", "o", "c", "k", "e", "d">>
S_true == <<"t", "r", "u", "e">>
S_false == <<"f", "a", "l", "s", "e">>
S_NaN == <<"N", "a", "N">>
S_one == <<"1">>

(***************************************************************************)
(* The file system the tools read: what os.Stat answers for a path.        *)
(***************************************************************************)
Paths == {S_notes, S_gone, S_big, S_etc, S_dot, S_full, S_under, S_huge, S_void, S_locked}

\* os.Stat(path): "none" is an error from Stat (the path does not exist)
StatKind(path) ==
    CASE path = S_notes -> "file"
      [] path = S_big -> "file"
      [] path = S_full -> "file"
      [] path = S_under -> "file"
      [] path = S_huge -> "file"
      [] path = S_void -> "file"
      [] path = S_locked -> "file"
      [] path = S_etc -> "dir"
      [] path = S_dot -> "dir"
      [] OTHER -> "none"

\* info.Size() of a regular file
StatSize(path) ==
    CASE path = S_notes -> 5
      [] path = S_big -> 102401
      [] path = S_full -> 102400
      [] path = S_under -> 102399
      [] path = S_huge -> 2147483647
      [] path = S_void -> 0
      [] path = S_locked -> 5
      [] OTHER -> 0

\* os.ReadFile(path) returns no error: the file can be opened and read
Readable(path) == StatKind(path) = "file" /\ path # S_locked

(***************************************************************************)
(* internal/tools: the file and process tools.  An outcome is              *)
(* [result, err, op]: the text returned (a tuple naming what was read),    *)
(* the error message ("" for nil) and the operation that ran.              *)
(***************************************************************************)
Outcome(result, err, op) == [result |-> result, err |-> err, op |-> op]

executePwd == Outcome(<<"cwd">>, "", "executePwd")

executeLs(path, recursive) ==
    IF StatKind(path) = "none"
    THEN Outcome(<<>>, "failed to access path", "executeLs")
    ELSE IF StatKind(path) # "dir"
    THEN Outcome(<<"name">> \o path, "", "executeLs")
    ELSE IF recursive
    THEN Outcome(<<"walk">> \o path, "", "executeLs")
    ELSE Outcome(<<"entries">> \o path, "", "executeLs")

executeStat(path) ==
    IF StatKind(path) = "none"
    THEN Outcome(<<>>, "failed to stat file", "executeStat")
    ELSE Outcome(<<"info">> \o path, "", "executeStat")

\* const maxSize = 100 * 1024
maxSize == 102400

\* executeCat with the size guard refusing maxSize itself
executeCatBelowMaxSize(path) ==
    IF StatKind(path) = "none"
    THEN Outcome(<<>>, "failed to access file", "executeCat")
    ELSE IF StatKind(path) = "dir"
    THEN Outcome(<<>>, "cannot cat a directory", "executeCat")
    ELSE IF StatSize(path) >= maxSize
    THEN Outcome(<<>>, "file too large", "executeCat")
    ELSE IF ~Readable(path)
    THEN Outcome(<<>>, "failed to read file", "executeCat: os.ReadFile")
    ELSE Outcome(<<"content">> \o path, "", "executeCat: os.ReadFile")

executeCat(path) ==
    IF StatKind(path) = "none"
    THEN Outcome(<<>>, "failed to access file", "executeCat")
    ELSE IF StatKind(path) = "dir"
    THEN Outcome(<<>>, "cannot cat a directory", "executeCat")
    ELSE IF StatSize(path) > maxSize
    THEN Outcome(<<>>, "file too large", "executeCat")
    ELSE IF ~Readable(path)
    THEN Outcome(<<>>, "failed to read file", "executeCat: os.ReadFile")
    ELSE Outcome(<<"content">> \o path, "", "executeCat: os.ReadFile")

executePs == Outcome(<<"processes">>, "", "executePs")

executeUptime == Outcome(<<"uptime">>, "", "executeUptime")

(***************************************************************************)
(* internal/tools/registry.go                                              *)
(***************************************************************************)
\* a value of type any: t is its dynamic type, v its value
Absent == [t |-> "absent", v |-> Empty]
StringValue(s) == [t |-> "string", v |-> s]
BoolValue(b) == [t |-> "bool", v |-> IF b THEN S_true ELSE S_false]
\* a float64; encoding/json refuses to marshal NaN
NumberValue(n) == [t |-> "number", v |-> n]

\* an argument map: the values of the two keys the tools read
Args(path, recursive) == [path |-> path, recursive |-> recursive]
NoArgs == Args(Absent, Absent)

\* the function declarations GetToolDefinitions returns
ToolNames == <<"pwd", "ls", "stat", "cat", "ps", "uptime">>

GetToolDefinitions(enabled) == IF enabled THEN ToolNames ELSE <<>>

\* a conversion that takes the text of any value present
AsStringOfAny(v) == [val |-> v.v, ok |-> TRUE]

\* v.(string): the value and ok
AsString(v) == IF v.t = "string" THEN [val |-> v.v, ok |-> TRUE] ELSE [val |-> Empty, ok |-> FALSE]

\* v.(bool)
AsBool(v) == v.t = "bool" /\ v.v = S_true

\* the switch on the tool name
DispatchByName(name, args) ==
    CASE name = "pwd" -> executePwd
      [] name = "ls" ->
           LET p == AsString(args.path).val
           IN  executeLs(IF p = Empty THEN S_dot ELSE p, AsBool(args.recursive))
      [] name = "stat" ->
           LET p == AsString(args.path)
           IN  IF ~p.ok \/ p.val = Empty
               THEN Outcome(<<>>, "stat requires a path argument", "none")
               ELSE executeStat(p.val)
      [] name = "cat" ->
           LET p == AsString(args.path)
           IN  IF ~p.ok \/ p.val = Empty
               THEN Outcome(<<>>, "cat requires a path argument", "none")
               ELSE executeCat(p.val)
      [] name = "ps" -> executePs
      [] name = "uptime" -> executeUptime
      [] OTHER -> Outcome(<<>>, "unknown tool", "none")

\* ExecuteTool without its check of r.enabled
ExecuteToolUnguarded(enabled, name, args) == DispatchByName(name, args)

ExecuteTool(enabled, name, args) ==
    IF ~enabled THEN Outcome(<<>>, "tools are disabled", "none")
    ELSE DispatchByName(name, args)

\* json.Marshal of an argument map fails on a value it cannot encode
Marshalable(args) == args.path # NumberValue(S_NaN) /\ args.recursive # NumberValue(S_NaN)

\* ParseFunctionCall: [name, args, err]
ParseFunctionCall(fc) ==
    IF ~Marshalable(fc.args)
    THEN [name |-> "", args |-> NoArgs, err |-> "failed to marshal args"]
    ELSE [name |-> fc.name, args |-> fc.args, err |-> ""]


(***************************************************************************)
(* internal/gemini/client.go: the environment detector.                    *)
(***************************************************************************)
UpperCase == <<"A", "B", "C", "D", "E", "F", "G", "H", "I", "J", "K", "L", "M",
               "N", "O", "P", "Q", "R", "S", "T", "U", "V", "W", "X", "Y", "Z">>
LowerCase == <<"a", "b", "c", "d", "e", "f", "g", "h", "i", "j", "k", "l", "m",
               "n", "o", "p", "q", "r", "s", "t", "u", "v", "w", "x", "y", "z">>

\* strings.ToLower
ToLower(s) ==
    [i \in 1..Len(s) |->
        IF \E k \in 1..26 : UpperCase[k] = s[i]
        THEN LowerCase[CHOOSE k \in 1..26 : UpperCase[k] = s[i]]
        ELSE s[i]]

\* strings.Contains
Contains(s, sub) ==
    \E i \in 0..(Len(s) - Len(sub)) : SubSeq(s, i + 1, i + Len(sub)) = sub

\* strings.Split(s, sep) for a one-character sep
RECURSIVE Split(_, _)
Split(s, sep) ==
    IF \A i \in 1..Len(s) : s[i] # sep THEN <<s>>
    ELSE LET i == CHOOSE j \in 1..Len(s) : s[j] = sep /\ \A k \in 1..(j - 1) : s[k] # sep
         IN  <<SubSeq(s, 1, i - 1)>> \o Split(SubSeq(s, i + 1, Len(s)), sep)

S_powershell == <<"p", "o", "w", "e", "r", "s", "h", "e", "l", "l">>
S_pwsh == <<"p", "w", "s", "h">>
S_cmd == <<"c", "m", "d">>
S_bash == <<"b", "a", "s", "h">>
S_cmdexe == <<"c", "m", "d", ".", "e", "x", "e">>

\* the variables detectShell reads; an unset variable reads as ""
Getenv(env, key) == env[key]

detectShellComSpecFirst(env, goos) ==
    IF Getenv(env, "SHELL") # Empty
    THEN LET parts == Split(Getenv(env, "SHELL"), "/") IN parts[Len(parts)]
    ELSE IF Getenv(env, "ComSpec") # Empty
            /\ Contains(ToLower(Getenv(env, "ComSpec")), S_cmdexe)
    THEN S_cmd
    ELSE IF Getenv(env, "PSModulePath") # Empty
    THEN S_powershell
    ELSE IF goos = "windows" THEN S_powershell ELSE S_bash

detectShell(env, goos) ==
    IF Getenv(env, "SHELL") # Empty
    THEN LET parts == Split(Getenv(env, "SHELL"), "/") IN parts[Len(parts)]
    ELSE IF Getenv(env, "PSModulePath") # Empty
    THEN S_powershell
    ELSE IF Getenv(env, "ComSpec") # Empty
            /\ Contains(ToLower(Getenv(env, "ComSpec")), S_cmdexe)
    THEN S_cmd
    ELSE IF goos = "windows" THEN S_powershell ELSE S_bash

S_microsoft == <<"m", "i", "c", "r", "o", "s", "o", "f", "t">>
S_wsl == <<"w", "s", "l">>

\* detectPlatform; uname is [ok, out]: whether `uname -r` ran, and its output
detectPlatform(goos, goarch, uname) ==
    IF goos = "linux" /\ uname.ok
       /\ (Contains(ToLower(uname.out), S_microsoft) \/ Contains(ToLower(uname.out), S_wsl))
    THEN <<"wsl2", "/", goarch>>
    ELSE <<goos, "/", goarch>>


(***************************************************************************)
(* The instruction builder.  The instruction text is a sequence of lines   *)
(* [label, name, data]: the section the line stands in, its fixed text,    *)
(* and the value substituted into it.  src/ holds two revisions of the     *)
(* builder: internal/gemini/client.go, and the copy in version.go that     *)
(* adds the ENVIRONMENT and AVAILABLE TOOLS sections.                      *)
(***************************************************************************)
Line(label, name, data) == [label |-> label, name |-> name, data |-> data]

\* the names collectEnvironment reads
EnvNames ==
    {"GX_MODEL", "GX_HISTORY", "GX_PROMPT_OUTPUT", "USERPROFILE", "USERNAME", "ComSpec",
     "PSModulePath", "TEMP", "TMP", "HOME", "USER", "LOGNAME",
     "SHELL", "PWD", "PATH", "GOPATH", "GOROOT", "DOCKER_HOST",
     "KUBECONFIG", "AWS_PROFILE", "AWS_REGION", "GCP_PROJECT"}

\* the spelling of a variable's name
Spell(key) ==
    CASE key = "GX_MODEL" -> <<"G", "X", "_", "M", "O", "D", "E", "L">>
      [] key = "GX_HISTORY" -> <<"G", "X", "_", "H", "I", "S", "T", "O", "R", "Y">>
      [] key = "GX_PROMPT_OUTPUT" -> <<"G", "X", "_", "P", "R", "O", "M", "P", "T", "_", "O", "U", "T", "P", "U", "T">>
      [] key = "USERPROFILE" -> <<"U", "S", "E", "R", "P", "R", "O", "F", "I", "L", "E">>
      [] key = "USERNAME" -> <<"U", "S", "E", "R", "N", "A", "M", "E">>
      [] key = "ComSpec" -> <<"C", "o", "m", "S", "p", "e", "c">>
      [] key = "PSModulePath" -> <<"P", "S", "M", "o", "d", "u", "l", "e", "P", "a", "t", "h">>
      [] key = "TEMP" -> <<"T", "E", "M", "P">>
      [] key = "TMP" -> <<"T", "M", "P">>
      [] key = "HOME" -> <<"H", "O", "M", "E">>
      [] key = "USER" -> <<"U", "S", "E", "R">>
      [] key = "LOGNAME" -> <<"L", "O", "G", "N", "A", "M", "E">>
      [] key = "SHELL" -> <<"S", "H", "E", "L", "L">>
      [] key = "PWD" -> <<"P", "W", "D">>
      [] key = "PATH" -> <<"P", "A", "T", "H">>
      [] key = "GOPATH" -> <<"G", "O", "P", "A", "T", "H">>
      [] key = "GOROOT" -> <<"G", "O", "R", "O", "O", "T">>
      [] key = "DOCKER_HOST" -> <<"D", "O", "C", "K", "E", "R", "_", "H", "O", "S", "T">>
      [] key = "KUBECONFIG" -> <<"K", "U", "B", "E", "C", "O", "N", "F", "I", "G">>
      [] key = "AWS_PROFILE" -> <<"A", "W", "S", "_", "P", "R", "O", "F", "I", "L", "E">>
      [] key = "AWS_REGION" -> <<"A", "W", "S", "_", "R", "E", "G", "I", "O", "N">>
      [] key = "GCP_PROJECT" -> <<"G", "C", "P", "_", "P", "R", "O", "J", "E", "C", "T">>
      [] key = "GX_API_TOKEN" -> <<"G", "X", "_", "A", "P", "I", "_", "T", "O", "K", "E", "N">>

\* strings.ToUpper
ToUpper(s) ==
    [i \in 1..Len(s) |->
        IF \E k \in 1..26 : LowerCase[k] = s[i]
        THEN UpperCase[CHOOSE k \in 1..26 : LowerCase[k] = s[i]]
        ELSE s[i]]

sensitivePatterns ==
    {<<"K", "E", "Y">>, <<"T", "O", "K", "E", "N">>, <<"S", "E", "C", "R", "E", "T">>,
     <<"P", "A", "S", "S", "W", "O", "R", "D">>, <<"A", "U", "T", "H">>,
     <<"C", "R", "E", "D", "E", "N", "T", "I", "A", "L">>}

S_redacted == <<"[", "R", "E", "D", "A", "C", "T", "E", "D", "]">>
S_truncated == <<" ", "(", "t", "r", "u", "n", "c", "a", "t", "e", "d", ")">>

\* collectEnvironment's helper sanitize
sanitize(key, val) ==
    LET keyUpper == ToUpper(Spell(key))
    IN  IF \E pattern \in sensitivePatterns : Contains(keyUpper, pattern)
        THEN S_redacted
        ELSE val

\* collectEnvironment's helper truncate
truncate(val, maxLen) ==
    IF Len(val) <= maxLen THEN val ELSE SubSeq(val, 1, maxLen) \o S_truncated

\* one `if val, ok := getEnv(key); ok { envVars = append(...) }`
EnvVar(env, key) ==
    IF Getenv(env, key) # Empty
    THEN <<Line("ENVIRONMENT", key, sanitize(key, Getenv(env, key)))>>
    ELSE <<>>

\* the same with the value truncated to maxLen
EnvVarTruncated(env, key, maxLen) ==
    IF Getenv(env, key) # Empty
    THEN <<Line("ENVIRONMENT", key, truncate(sanitize(key, Getenv(env, key)), maxLen))>>
    ELSE <<>>

\* `if ... ok { } else if ... ok { }`
EnvVarOrElse(env, key, other) ==
    IF Getenv(env, key) # Empty THEN EnvVar(env, key) ELSE EnvVar(env, other)

\* collectEnvironment with GX_API_TOKEN among the variables it lists, unsanitized
collectEnvironmentWithToken(env, goos) ==
    (IF Getenv(env, "GX_API_TOKEN") # Empty
     THEN <<Line("ENVIRONMENT", "GX_API_TOKEN", Getenv(env, "GX_API_TOKEN"))>>
     ELSE <<>>)
    \o EnvVar(env, "GX_MODEL") \o EnvVar(env, "PATH")

\* version.go: collectEnvironment
collectEnvironment(env, goos) ==
    EnvVar(env, "GX_MODEL") \o EnvVar(env, "GX_HISTORY") \o EnvVar(env, "GX_PROMPT_OUTPUT")
    \o (IF goos = "windows"
        THEN EnvVar(env, "USERPROFILE") \o EnvVar(env, "USERNAME") \o EnvVar(env, "ComSpec")
             \o EnvVarTruncated(env, "PSModulePath", 200)
             \o EnvVarOrElse(env, "TEMP", "TMP")
        ELSE EnvVar(env, "HOME") \o EnvVarOrElse(env, "USER", "LOGNAME")
             \o EnvVar(env, "SHELL") \o EnvVar(env, "PWD"))
    \o EnvVarTruncated(env, "PATH", 300)
    \o EnvVar(env, "GOPATH") \o EnvVar(env, "GOROOT") \o EnvVar(env, "DOCKER_HOST")
    \o EnvVar(env, "KUBECONFIG") \o EnvVar(env, "AWS_PROFILE") \o EnvVar(env, "AWS_REGION")
    \o EnvVar(env, "GCP_PROJECT")

\* version.go: buildToolsDescription
buildToolsDescription(enabled) ==
    IF ~enabled THEN <<>>
    ELSE <<Line("AVAILABLE TOOLS", "pwd", <<"Get current working directory">>),
           Line("AVAILABLE TOOLS", "ls", <<"List files and directories">>),
           Line("AVAILABLE TOOLS", "stat", <<"Get detailed file information">>),
           Line("AVAILABLE TOOLS", "cat", <<"Read file contents (max 100KB)">>),
           Line("AVAILABLE TOOLS", "ps", <<"List running processes">>),
           Line("AVAILABLE TOOLS", "uptime", <<"Get system uptime">>)>>

PowerShellWarning == "CRITICAL: For PowerShell, use # for comments. NEVER use REM (REM is only for CMD)."
CmdWarning == "For CMD, use REM for comments."
ToolsNote == "You have access to tools for gathering context about the file system and running processes. Use them when needed to provide accurate commands."

\* commentWarning with the PowerShell branch taken for "powershell" alone
commentWarningPowershellOnly(shell) ==
    IF shell = S_powershell THEN PowerShellWarning
    ELSE IF shell = S_cmd THEN CmdWarning
    ELSE ""

commentWarning(shell) ==
    IF shell = S_powershell \/ shell = S_pwsh THEN PowerShellWarning
    ELSE IF shell = S_cmd THEN CmdWarning
    ELSE ""

commentSyntax(shell) ==
    IF shell = S_powershell \/ shell = S_pwsh THEN <<"#">>
    ELSE IF shell = S_cmd THEN <<"R", "E", "M">>
    ELSE <<"#">>

verboseInstruction(verbose) ==
    IF verbose
    THEN <<"Include helpful comments explaining what each part of the command does.">>
    ELSE <<"Do not include comments unless absolutely necessary for understanding.">>

warningSection(shell) ==
    IF commentWarning(shell) # "" THEN <<Line("WARNING", commentWarning(shell), <<>>)>> ELSE <<>>

\* the CRITICAL RULES section, which both revisions share but for rule 5
RulesSection(c, rule5) ==
    <<Line("CRITICAL RULES", "1. Return ONLY the shell command(s)", <<>>),
      Line("CRITICAL RULES", "2. Do not wrap output in code blocks", <<>>),
      Line("CRITICAL RULES", "3. comment syntax for the shell: %s", commentSyntax(c.shell)),
      Line("CRITICAL RULES", "4. %s", verboseInstruction(c.verbose)),
      Line("CRITICAL RULES", rule5, <<>>),
      Line("CRITICAL RULES", "6. line continuation for the shell", <<>>),
      Line("CRITICAL RULES", "7. explain briefly using shell comments", <<>>)>>

ContextSection(c, goos) ==
    <<Line("CONTEXT", "- Shell: %s", c.shell),
      Line("CONTEXT", "- Platform: %s", c.platform),
      Line("CONTEXT", "- Operating System: %s", <<goos>>)>>

\* internal/gemini/client.go: buildSystemInstruction
buildSystemInstruction(c, env, goos) ==
    warningSection(c.shell)
    \o RulesSection(c, "5. directly executable - copy-paste ready.")
    \o ContextSection(c, goos)
    \o <<Line("", ToolsNote, <<>>)>>

\* version.go: buildSystemInstruction
buildSystemInstructionWithEnvironment(c, env, goos) ==
    warningSection(c.shell)
    \o RulesSection(c, "5. directly executable - copy-paste ready. Absolute requirement.")
    \o <<Line("PAY ATTENTION", "Again, directly executable - copy-paste ready.", <<>>)>>
    \o ContextSection(c, goos)
    \o collectEnvironment(env, goos)
    \o buildToolsDescription(c.tools)


(***************************************************************************)
(* internal/history/history.go.  A file is [kind, entries]: "absent",      *)
(* "malformed" (its bytes are not a JSON array of entries) or "entries".   *)
(***************************************************************************)
Entry(p, r) == [Prompt |-> p, Response |-> r]

DefaultMaxHistory == 10

Digits == <<"0", "1", "2", "3", "4", "5", "6", "7", "8", "9">>

IsDigit(ch) == \E d \in 1..10 : Digits[d] = ch
DigitValue(ch) == (CHOOSE d \in 1..10 : Digits[d] = ch) - 1

\* the value of a string of digits
RECURSIVE DecimalValue(_)
DecimalValue(s) ==
    IF s = <<>> THEN 0 ELSE 10 * DecimalValue(SubSeq(s, 1, Len(s) - 1)) + DigitValue(s[Len(s)])

\* strconv.Atoi: [ok, n]; an optional sign and one or more digits
Atoi(s) ==
    LET signed == s # <<>> /\ s[1] \in {"+", "-"}
        digits == IF signed THEN Tail(s) ELSE s
    IN  IF digits = <<>> \/ \E i \in 1..Len(digits) : ~IsDigit(digits[i])
        THEN [ok |-> FALSE, n |-> 0]
        ELSE [ok |-> TRUE,
              n |-> IF signed /\ s[1] = "-" THEN 0 - DecimalValue(digits)
                    ELSE DecimalValue(digits)]

\* NewManager: the maxHistory of the manager it returns
NewManager(e) ==
    IF Getenv(e, "GX_HISTORY") # Empty
       /\ Atoi(Getenv(e, "GX_HISTORY")).ok
       /\ Atoi(Getenv(e, "GX_HISTORY")).n > 0
    THEN Atoi(Getenv(e, "GX_HISTORY")).n
    ELSE DefaultMaxHistory

NoFile == [kind |-> "absent", entries |-> <<>>]
MalformedFile == [kind |-> "malformed", entries |-> <<>>]
UnreadableFile == [kind |-> "unreadable", entries |-> <<>>]
EntriesFile(entries) == [kind |-> "entries", entries |-> entries]

\* Load reporting a file it cannot parse
LoadStrict(file) ==
    IF file.kind = "absent" THEN [entries |-> <<>>, err |-> ""]
    ELSE IF file.kind = "unreadable" THEN [entries |-> <<>>, err |-> "failed to read history"]
    ELSE IF file.kind = "malformed" THEN [entries |-> <<>>, err |-> "failed to parse history"]
    ELSE [entries |-> file.entries, err |-> ""]

\* Load: [entries, err]
Load(file) ==
    IF file.kind = "absent" THEN [entries |-> <<>>, err |-> ""]
    ELSE IF file.kind = "unreadable" THEN [entries |-> <<>>, err |-> "failed to read history"]
    ELSE IF file.kind = "malformed" THEN [entries |-> <<>>, err |-> ""]
    ELSE [entries |-> file.entries, err |-> ""]

\* Save keeping the first max entries
SaveOldest(max, entries) ==
    EntriesFile(IF Len(entries) > max THEN SubSeq(entries, 1, max) ELSE entries)

\* Save: the file it writes
Save(max, entries) ==
    EntriesFile(IF Len(entries) > max
                THEN SubSeq(entries, Len(entries) - max + 1, Len(entries))
                ELSE entries)

\* Manager.Append: the file after it
ManagerAppend(max, file, p, r) ==
    LET loaded == Load(file)
        entries == IF loaded.err # "" THEN <<>> ELSE loaded.entries
    IN  Save(max, Append(entries, Entry(p, r)))

\* GetRecentContext: [entries, err]
GetRecentContext(file, n) ==
    LET loaded == Load(file)
    IN  IF loaded.err # "" THEN [entries |-> <<>>, err |-> loaded.err]
        ELSE IF Len(loaded.entries) <= n THEN loaded
        ELSE [entries |-> SubSeq(loaded.entries, Len(loaded.entries) - n + 1,
                                 Len(loaded.entries)),
              err |-> ""]

\* one access to ~/.gxhistory: os.ReadFile, os.WriteFile or os.Remove, and
\* the method of Manager that makes it
StoreOp(op, by) == [op |-> op, by |-> by]

\* Append writing without a Load
AppendOpsWriteOnly == <<StoreOp("write", "Append")>>

\* Manager.Append: its Load, then its Save
AppendOps == <<StoreOp("read", "Append"), StoreOp("write", "Append")>>

\* Manager.GetRecentContext: its Load
GetRecentContextOps == <<StoreOp("read", "GetRecentContext")>>

\* Manager.Clear: os.Remove of the history file
ClearOps == <<StoreOp("remove", "Clear")>>

\* no call of Append in progress
NoAppenders == [i \in {1, 2} |-> [at |-> "idle", entries |-> <<>>]]

NotStaged == [exists |-> FALSE, command |-> Empty]

\* StageCommand: the staging file after it
StageCommand(command) == [exists |-> TRUE, command |-> command]

\* GetStagedCommand reading an absent file as an empty command
GetStagedCommandLenient(file) ==
    IF ~file.exists THEN [command |-> Empty, err |-> ""]
    ELSE [command |-> file.command, err |-> ""]

\* GetStagedCommand: [command, err]
GetStagedCommand(file) ==
    IF ~file.exists THEN [command |-> Empty, err |-> "no staged command found"]
    ELSE [command |-> file.command, err |-> ""]

(***************************************************************************)
(* The state.                                                              *)
(***************************************************************************)
VARIABLES
    env,            \* the process environment: variable name -> value ("" unset)
    goos,           \* runtime.GOOS
    uname,          \* what `uname -r` answers: [ok, out]
    cfg,            \* gemini.Config: [Verbose, NoTools]
    revision,       \* which revision of buildSystemInstruction the build holds
    model,          \* how the model answers: "scripted" (no function call after
                    \* MaxTurns turns) or "calling" (a function call in every answer)
    client,         \* the *Client NewClient returned
    historyContext, \* the entries handed to Generate
    prompt,         \* the prompt handed to Generate
    pc,             \* where the invocation stands
    resp,           \* processResponse: the response being interpreted
    turnNum,        \* processResponse: turnNum
    promptLog,      \* Generate's slice promptLog
    respLog,        \* processResponse's parameter promptLog (its own slice header)
    chatHistory,    \* chat.History
    sent,           \* every message handed to chat.SendMessage, in order
    received,       \* every response chat.SendMessage returned, in order
    dispatched,     \* every ExecuteTool call made: [turn, name, args, outcome]
    stored,         \* the prompt log file: [written, content]
    result,         \* the command Generate returned
    err,            \* the error Generate returned ("" for nil)
    diagnostics,    \* the [tool] lines processResponse printed on standard error
    toolCall,       \* a call handed to the registry: [enabled, name, args]
    toolOutcome,    \* what the registry answered: [done, outcome]
    toolText,       \* a tool result handed to formatToolResult
    resultStr,      \* what formatToolResult returned: [done, text]
    preview,        \* what BuildPrompt returned: [done, parts, sep]
    flags,          \* the parsed command line: [version, c, x, p, y]
    clientOk,       \* whether gemini.NewClient can be constructed
    histFile,       \* ~/.gxhistory: [kind, entries]
    histFileAtStart,\* ~/.gxhistory as the invocation found it
    stagedFile,     \* ~/.gx: [exists, command]
    stagedFileAtStart, \* ~/.gx as the invocation found it
    invocation,     \* the number of the invocation of gx: 1, or 2 for a later gx -x
    maxHistory,     \* Manager.maxHistory
    appended,       \* every entry handed to Manager.Append, in order
    stdout,         \* what Run printed on standard output
    stderr,         \* what Run printed on standard error
    executed,       \* every command handed to executeCommand
    exitCode,       \* what Run returned (-1 while it runs)
    storeLog,       \* every access of this invocation to ~/.gxhistory: [op, by]
    appenders       \* concurrent calls of Append: invocation -> [at, entries]

vars == <<env, goos, uname, cfg, revision, model, client, historyContext, prompt, pc, resp,
          turnNum, promptLog, respLog, chatHistory, sent, received, dispatched, stored,
          result, err, diagnostics, toolCall, toolOutcome, toolText, resultStr,
          preview, flags, clientOk, histFile, histFileAtStart, stagedFile,
          stagedFileAtStart, invocation, maxHistory, appended, stdout,
          stderr, executed, exitCode, storeLog, appenders>>

envVars == <<env, goos, uname, cfg, revision, model>>
engineVars == <<resp, turnNum, promptLog, respLog, chatHistory, sent, received,
                dispatched, stored, result, err, diagnostics>>
toolVars == <<toolCall, toolOutcome>>
formatVars == <<toolText, resultStr>>
previewVars == <<preview>>
cliVars == <<flags, clientOk, histFile, histFileAtStart, stagedFile, stagedFileAtStart,
             invocation, maxHistory, appended, stdout, stderr,
             executed, exitCode, storeLog, appenders>>

(***************************************************************************)
(* NewClient                                                               *)
(***************************************************************************)
NoClient ==
    [constructed |-> FALSE, tools |-> FALSE, verbose |-> FALSE, shell |-> Empty,
     platform |-> Empty, modelTools |-> [set |-> FALSE, defs |-> <<>>],
     systemInstruction |-> <<>>]

\* the fields NewClient sets before it builds the instruction
ClientFields(config, e, os, un) ==
    [constructed |-> TRUE,
     tools |-> ~config.NoTools,
     verbose |-> config.Verbose,
     shell |-> detectShell(e, os),
     platform |-> detectPlatform(os, "amd64", un),
     modelTools |-> IF ~config.NoTools
                    THEN [set |-> TRUE, defs |-> GetToolDefinitions(~config.NoTools)]
                    ELSE [set |-> FALSE, defs |-> <<>>],
     systemInstruction |-> <<>>]

\* c.buildSystemInstruction() of the revision the build holds
SystemInstruction(c, e, os, rev) ==
    IF rev = "client.go" THEN buildSystemInstruction(c, e, os)
    ELSE buildSystemInstructionWithEnvironment(c, e, os)

NewClient(config, e, os, un, rev) ==
    LET c == ClientFields(config, e, os, un)
    IN  [c EXCEPT !.systemInstruction = SystemInstruction(c, e, os, rev)]

NewClientStep ==
    /\ pc = "new"
    /\ client' = NewClient(cfg, env, goos, uname, revision)
    /\ pc' = "ready"
    /\ UNCHANGED <<envVars, cliVars, formatVars, previewVars, engineVars, toolVars, historyContext, prompt>>

(***************************************************************************)
(* Model responses and messages.                                           *)
(***************************************************************************)
CallPart(name, args) == [kind |-> "call", name |-> name, args |-> args, text |-> Empty]
TextPart(text) == [kind |-> "text", name |-> "", args |-> NoArgs, text |-> text]

Response(parts) == [candidates |-> 1, content |-> TRUE, parts |-> parts]
\* a response with an empty candidate list
NoCandidates == [candidates |-> 0, content |-> FALSE, parts |-> <<>>]
\* a response whose first candidate has a nil Content
NilContent == [candidates |-> 1, content |-> FALSE, parts |-> <<>>]
NoResponse == [candidates |-> 0, content |-> FALSE, parts |-> <<>>]

FunctionResponse(name, key, error, res) ==
    [name |-> name, key |-> key, error |-> error, result |-> res]

TextMessage(text) == [kind |-> "text", text |-> text, parts |-> <<>>]
FunctionResponsesMessage(parts) == [kind |-> "functionResponses", text |-> Empty, parts |-> parts]

Block(header, turn, lines) == [header |-> header, turn |-> turn, lines |-> lines]

IsCall(part) == part.kind = "call"
IsText(part) == part.kind = "text"

\* the partition of candidate.Content.Parts
functionCalls(parts) == SelectSeq(parts, IsCall)
textParts(parts) == [i \in 1..Len(SelectSeq(parts, IsText)) |-> SelectSeq(parts, IsText)[i].text]

\* `if len(functionCalls) > 0` with the text parts taking precedence
ActsOnCallsUnlessText(parts) == Len(functionCalls(parts)) > 0 /\ Len(textParts(parts)) = 0

\* `if len(functionCalls) > 0`
ActsOnCalls(parts) == Len(functionCalls(parts)) > 0

\* the malformed-response checks without the check of candidate.Content
IsMalformedCandidatesOnly(r) ==
    IF r.candidates = 0 THEN "no response candidates" ELSE ""

\* the two checks at the head of the loop: the error returned, "" for none
IsMalformed(r) ==
    IF r.candidates = 0 THEN "no response candidates"
    ELSE IF ~r.content THEN "empty response content"
    ELSE ""

\* json.MarshalIndent(fc.Args): empty when Marshal fails (the error is dropped)
ArgsJSON(args) ==
    IF ~Marshalable(args) THEN <<>>
    ELSE (IF args.path.t = "absent" THEN <<>> ELSE <<"path", args.path.t>> \o args.path.v)
         \o (IF args.recursive.t = "absent" THEN <<>>
             ELSE <<"recursive", args.recursive.t>> \o args.recursive.v)

\* one pass of the loop over functionCalls with a tool error reported as a result
ActErrorAsResult(c, fc, turn) ==
    LET parsed == ParseFunctionCall(fc)
        out == ExecuteTool(c.tools, parsed.name, parsed.args)
    IN  IF parsed.err # ""
        THEN [response |-> FunctionResponse(fc.name, "result", "", <<>>),
              calls |-> <<>>,
              line |-> Line("Function", fc.name, <<"Error", parsed.err>>)]
        ELSE [response |-> FunctionResponse(fc.name, "result", "", out.result),
              calls |-> <<[turn |-> turn, name |-> parsed.name, args |-> parsed.args,
                           outcome |-> out]>>,
              line |-> Line("Function", parsed.name, <<"Result">> \o out.result)]

\* the pass of a verbose client reporting a tool error on standard error
\* only, and answering the model with an empty result
ActVerboseHidesErrors(c, fc, turn) ==
    LET parsed == ParseFunctionCall(fc)
        out == ExecuteTool(c.tools, parsed.name, parsed.args)
    IN  IF parsed.err # ""
        THEN [response |-> FunctionResponse(fc.name, "error", parsed.err, <<>>),
              calls |-> <<>>,
              line |-> Line("Function", fc.name, <<"Error", parsed.err>>)]
        ELSE IF out.err # "" /\ c.verbose
        THEN [response |-> FunctionResponse(fc.name, "result", "", <<>>),
              calls |-> <<[turn |-> turn, name |-> parsed.name, args |-> parsed.args,
                           outcome |-> out]>>,
              line |-> Line("Function", parsed.name, <<"Error", out.err>>)]
        ELSE IF out.err # ""
        THEN [response |-> FunctionResponse(fc.name, "error", out.err, <<>>),
              calls |-> <<[turn |-> turn, name |-> parsed.name, args |-> parsed.args,
                           outcome |-> out]>>,
              line |-> Line("Function", parsed.name, <<"Error", out.err>>)]
        ELSE [response |-> FunctionResponse(fc.name, "result", "", out.result),
              calls |-> <<[turn |-> turn, name |-> parsed.name, args |-> parsed.args,
                           outcome |-> out]>>,
              line |-> Line("Function", parsed.name, <<"Result">> \o out.result)]

\* one pass of the loop over functionCalls: the function response appended,
\* the ExecuteTool call made (none on a parse failure) and the log line
Act(c, fc, turn) ==
    LET parsed == ParseFunctionCall(fc)
        out == ExecuteTool(c.tools, parsed.name, parsed.args)
    IN  IF parsed.err # ""
        THEN [response |-> FunctionResponse(fc.name, "error", parsed.err, <<>>),
              calls |-> <<>>,
              line |-> Line("Function", fc.name, <<"Error", parsed.err>>)]
        ELSE IF out.err # ""
        THEN [response |-> FunctionResponse(fc.name, "error", out.err, <<>>),
              calls |-> <<[turn |-> turn, name |-> parsed.name, args |-> parsed.args,
                           outcome |-> out]>>,
              line |-> Line("Function", parsed.name, <<"Error", out.err>>)]
        ELSE [response |-> FunctionResponse(fc.name, "result", "", out.result),
              calls |-> <<[turn |-> turn, name |-> parsed.name, args |-> parsed.args,
                           outcome |-> out]>>,
              line |-> Line("Function", parsed.name, <<"Result">> \o out.result)]

\* the batch with the calls that failed to parse left out
functionResponsesParsedOnly(c, calls, turn) ==
    LET parsedOk(fc) == ParseFunctionCall(fc).err = ""
        kept == SelectSeq(calls, parsedOk)
    IN  [i \in 1..Len(kept) |-> Act(c, kept[i], turn).response]

\* functionResponses after the loop over functionCalls
functionResponses(c, calls, turn) ==
    [i \in 1..Len(calls) |-> Act(c, calls[i], turn).response]

RECURSIVE Flatten(_)
Flatten(seqs) == IF seqs = <<>> THEN <<>> ELSE Head(seqs) \o Flatten(Tail(seqs))

\* the loop over functionCalls skipping a call identical to an earlier one
toolCallsOnce(c, calls, turn) ==
    Flatten([i \in 1..Len(calls) |->
                IF \E j \in 1..(i - 1) : calls[j] = calls[i]
                THEN <<>>
                ELSE Act(c, calls[i], turn).calls])

\* the ExecuteTool calls of the loop over functionCalls, in order
toolCalls(c, calls, turn) ==
    Flatten([i \in 1..Len(calls) |-> Act(c, calls[i], turn).calls])

\* the block "TURN n - MODEL RESPONSE (FUNCTION CALLS)"
funcCallText(calls, turn) ==
    Block("MODEL RESPONSE (FUNCTION CALLS)", turn,
          [i \in 1..Len(calls) |-> Line("Function", calls[i].name, ArgsJSON(calls[i].args))])

\* the block "TURN n - TOOL RESPONSES"
funcResponseText(c, calls, turn) ==
    Block("TOOL RESPONSES", turn, [i \in 1..Len(calls) |-> Act(c, calls[i], turn).line])

\* the command returned without strings.TrimSpace
finalCommandUntrimmed(texts) == Join(texts, <<"\n">>)

\* strings.TrimSpace(strings.Join(textParts, "\n"))
finalCommand(texts) == TrimSpace(Join(texts, <<"\n">>))

\* strings.LastIndex(s, sub) for a one-character sub: the index, from 0, of
\* its last occurrence in s, or -1
LastIndex(s, sub) ==
    IF \A i \in 1..Len(s) : s[i] # sub THEN -1
    ELSE (CHOOSE i \in 1..Len(s) : s[i] = sub /\ \A j \in (i + 1)..Len(s) : s[j] # sub) - 1

S_ellipsis == <<".", ".", ".", " ", "(", "t", "r", "u", "n", "c", "a", "t", "e", "d", ")">>

\* formatToolResult breaking at a newline from index maxLen-50 on
formatToolResultFrom150(text) ==
    LET maxLen == 200
        truncated == SubSeq(text, 1, maxLen)
        idx == LastIndex(truncated, "\n")
    IN  IF Len(text) <= maxLen THEN text
        ELSE IF idx >= maxLen - 50 THEN SubSeq(truncated, 1, idx) \o S_ellipsis
        ELSE truncated \o S_ellipsis

\* formatToolResult: the preview of a tool result in the verbose output
formatToolResult(text) ==
    LET maxLen == 200
        truncated == SubSeq(text, 1, maxLen)
        idx == LastIndex(truncated, "\n")
    IN  IF Len(text) <= maxLen THEN text
        ELSE IF idx > maxLen - 50 THEN SubSeq(truncated, 1, idx) \o S_ellipsis
        ELSE truncated \o S_ellipsis

\* one [tool] line on standard error
Diag(what, n, name, error, text) ==
    [what |-> what, n |-> n, name |-> name, error |-> error, text |-> text]

\* the [tool] lines of one pass of the loop over functionCalls
callDiagnostics(c, fc) ==
    LET parsed == ParseFunctionCall(fc)
        out == ExecuteTool(c.tools, parsed.name, parsed.args)
    IN  IF parsed.err # ""
        THEN <<Diag("[tool] %s() - Error parsing: %s", 0, fc.name, parsed.err, <<>>)>>
        ELSE <<Diag("[tool] %s(%s)", 0, parsed.name, "", ArgsJSON(parsed.args)),
               IF out.err # ""
               THEN Diag("[tool] %s -> error: %s", 0, parsed.name, out.err, <<>>)
               ELSE Diag("[tool] %s -> %s", 0, parsed.name, "",
                         formatToolResult(out.result))>>

\* what a turn with function calls prints: nothing unless c.verbose
turnDiagnostics(c, calls) ==
    IF ~c.verbose THEN <<>>
    ELSE <<Diag("[tool] Received %d function call(s)", Len(calls), "", "", <<>>)>>
         \o Flatten([i \in 1..Len(calls) |-> callDiagnostics(c, calls[i])])

(***************************************************************************)
(* Generate                                                                *)
(***************************************************************************)
\* the history block: one User and one Assistant line per entry
histText(history) ==
    Block("HISTORY CONTEXT", 0,
          Flatten([i \in 1..Len(history) |->
                      <<Line("User", "", history[i].Prompt),
                        Line("Assistant", "", history[i].Response)>>]))

\* promptLog as Generate holds it when it sends the prompt
initialPromptLog(c, e, os, rev, history, p) ==
    <<Block("SYSTEM INSTRUCTION", 0, SystemInstruction(c, e, os, rev))>>
    \o (IF Len(history) > 0 THEN <<histText(history)>> ELSE <<>>)
    \o <<Block("USER PROMPT", 0, <<Line("", "", p)>>)>>

\* the replay of the history entries newest first
seedHistoryNewestFirst(history) ==
    Flatten([i \in 1..Len(history) |->
                <<[role |-> "user", text |-> history[Len(history) + 1 - i].Prompt],
                  [role |-> "model", text |-> history[Len(history) + 1 - i].Response]>>])

\* chat.History after the replay of the history entries
seedHistory(history) ==
    Flatten([i \in 1..Len(history) |->
                <<[role |-> "user", text |-> history[i].Prompt],
                  [role |-> "model", text |-> history[i].Response]>>])

\* writePromptLog: the blocks joined by "\n---\n\n" and written to the file
writePromptLog(log) == [written |-> TRUE, content |-> log]

\* BuildPrompt with the history rendered without the Assistant lines
BuildPromptUserLinesOnly(c, e, os, rev, p, history) ==
    <<Block("SYSTEM INSTRUCTION", 0, SystemInstruction(c, e, os, rev))>>
    \o (IF Len(history) > 0
        THEN <<Block("HISTORY CONTEXT", 0,
                     [i \in 1..Len(history) |-> Line("User", "", history[i].Prompt)])>>
        ELSE <<>>)
    \o <<Block("USER PROMPT", 0, <<Line("", "", p)>>)>>

\* BuildPrompt: the parts it joins by "\n\n"
BuildPrompt(c, e, os, rev, p, history) ==
    <<Block("SYSTEM INSTRUCTION", 0, SystemInstruction(c, e, os, rev))>>
    \o (IF Len(history) > 0
        THEN <<Block("HISTORY CONTEXT", 0,
                     Flatten([i \in 1..Len(history) |->
                                 <<Line("User", "", history[i].Prompt),
                                   Line("Assistant", "", history[i].Response)>>]))>>
        ELSE <<>>)
    \o <<Block("USER PROMPT", 0, <<Line("", "", p)>>)>>

\* the inputs of the scripted model
S_command == <<" ", "l", "s", "\n">>
S_prompt == <<"l", "i", "s", "t">>

PartAlphabet ==
    {CallPart("pwd", NoArgs),
     CallPart("cat", NoArgs),
     CallPart("cat", Args(StringValue(S_gone), Absent)),
     CallPart("rm", NoArgs),
     CallPart("ls", Args(Absent, NumberValue(S_NaN))),
     TextPart(S_command)}

\* the responses of at most n parts
Responses(n) ==
    {NoCandidates, NilContent} \cup {Response(parts) : parts \in SeqsUpTo(PartAlphabet, n)}

RECURSIVE PartsIn(_)
PartsIn(responses) ==
    IF responses = <<>> THEN 0 ELSE Len(Head(responses).parts) + PartsIn(Tail(responses))

\* the answers of a model that asks for a tool in every turn
CallingResponses ==
    {Response(<<CallPart("pwd", NoArgs)>>),
     Response(<<CallPart("cat", Args(StringValue(S_gone), Absent))>>),
     Response(<<CallPart("ls", Args(Absent, NumberValue(S_NaN)))>>),
     Response(<<TextPart(S_command), CallPart("pwd", NoArgs)>>)}

\* text that strings.TrimSpace empties
S_blank == <<" ", "\n">>

\* the answers of a model of few words: a malformed response, one tool
\* call, a command, and final responses without text or with blank text
BriefResponses ==
    {NoCandidates,
     Response(<<CallPart("pwd", NoArgs)>>),
     Response(<<TextPart(S_command)>>),
     Response(<<>>),
     Response(<<TextPart(S_blank)>>),
     Response(<<TextPart(S_blank), TextPart(S_blank)>>)}

\* what the model may answer to the send that starts turn `turn`, after the
\* responses `before`.  The scripted model calls tools in at most MaxTurns
\* turns and produces at most MaxParts parts; the calling model calls a tool
\* in every turn and is followed for MaxCalls turns; the brief model calls
\* tools in at most MaxTurns turns.
ScriptedResponses(turn, before) ==
    IF model = "calling"
    THEN (IF turn > MaxCalls THEN {} ELSE CallingResponses)
    ELSE IF model = "brief"
    THEN {r \in BriefResponses : turn > MaxTurns => functionCalls(r.parts) = <<>>}
    ELSE {r \in Responses(MaxParts - PartsIn(before)) :
             turn > MaxTurns => functionCalls(r.parts) = <<>>}

Histories ==
    {<<>>,
     <<Entry(<<"a">>, <<"l", "s">>)>>,
     <<Entry(<<"a">>, <<"l", "s">>), Entry(<<"b">>, <<"p", "w", "d">>)>>}

\* a call of BuildPrompt on the client, before Generate
BuildPromptStep ==
    /\ pc = "ready"
    /\ ~preview.done
    /\ preview' = [done |-> TRUE,
                   parts |-> BuildPrompt(client, env, goos, revision, prompt, historyContext),
                   sep |-> <<"\n", "\n">>]
    /\ UNCHANGED <<envVars, cliVars, formatVars, engineVars, toolVars, client, historyContext,
                   prompt, pc>>

\* Generate up to its first chat.SendMessage, which fails
GenerateSendFails ==
    /\ pc = "ready"
    /\ promptLog' = initialPromptLog(client, env, goos, revision, historyContext, prompt)
    /\ chatHistory' = seedHistory(historyContext)
    /\ sent' = <<TextMessage(prompt)>>
    /\ stored' = writePromptLog(promptLog')
    /\ result' = Empty
    /\ err' = "failed to generate response"
    /\ pc' = "done"
    /\ UNCHANGED <<envVars, cliVars, formatVars, previewVars, toolVars, diagnostics, client, historyContext, prompt, resp, turnNum,
                   respLog, received, dispatched>>

\* Generate up to its call of processResponse with the first response
GenerateSendOk ==
    /\ pc = "ready"
    /\ promptLog' = initialPromptLog(client, env, goos, revision, historyContext, prompt)
    /\ chatHistory' = seedHistory(historyContext)
    /\ sent' = <<TextMessage(prompt)>>
    /\ \E r \in ScriptedResponses(1, <<>>) :
          /\ resp' = r
          /\ received' = <<r>>
    /\ respLog' = promptLog'
    /\ turnNum' = 1
    /\ pc' = "interpret"
    /\ UNCHANGED <<envVars, cliVars, formatVars, previewVars, toolVars, diagnostics, client, historyContext, prompt, dispatched, stored,
                   result, err>>

\* processResponse returns an error on a malformed response; Generate writes
\* its promptLog and returns
ProcessProtocolError ==
    /\ pc = "interpret"
    /\ IsMalformed(resp) # ""
    /\ result' = Empty
    /\ err' = IsMalformed(resp)
    /\ stored' = writePromptLog(promptLog)
    /\ pc' = "done"
    /\ UNCHANGED <<envVars, cliVars, formatVars, previewVars, toolVars, diagnostics, client, historyContext, prompt, resp, turnNum,
                   promptLog, respLog, chatHistory, sent, received, dispatched>>

\* the pass on a response with function calls in an engine that gives up
\* after MaxTurns turns
ProcessFunctionCallsTurnLimit ==
    /\ pc = "interpret"
    /\ IsMalformed(resp) = ""
    /\ ActsOnCalls(resp.parts)
    /\ IF turnNum > MaxTurns
       THEN /\ result' = Empty
            /\ err' = "too many turns"
            /\ stored' = writePromptLog(promptLog)
            /\ pc' = "done"
            /\ UNCHANGED <<respLog, dispatched, sent, resp, received, turnNum, diagnostics>>
       ELSE /\ LET calls == functionCalls(resp.parts)
               IN  /\ respLog' = respLog \o <<funcCallText(calls, turnNum),
                                              funcResponseText(client, calls, turnNum)>>
                   /\ dispatched' = dispatched \o toolCalls(client, calls, turnNum)
                   /\ sent' = Append(sent, FunctionResponsesMessage(
                                               functionResponses(client, calls, turnNum)))
                   /\ diagnostics' = diagnostics \o turnDiagnostics(client, calls)
            /\ \E r \in ScriptedResponses(turnNum + 1, received) :
                  /\ resp' = r
                  /\ received' = Append(received, r)
            /\ turnNum' = turnNum + 1
            /\ UNCHANGED <<pc, stored, result, err>>
    /\ UNCHANGED <<envVars, cliVars, formatVars, previewVars, toolVars, client, historyContext,
                   prompt, promptLog, chatHistory>>

\* one pass of the loop on a response with function calls, whose send of
\* the function responses succeeds
ProcessFunctionCallsSendOk ==
    /\ pc = "interpret"
    /\ IsMalformed(resp) = ""
    /\ ActsOnCalls(resp.parts)
    /\ LET calls == functionCalls(resp.parts)
       IN  /\ respLog' = respLog \o <<funcCallText(calls, turnNum),
                                      funcResponseText(client, calls, turnNum)>>
           /\ dispatched' = dispatched \o toolCalls(client, calls, turnNum)
           /\ sent' = Append(sent, FunctionResponsesMessage(
                                       functionResponses(client, calls, turnNum)))
           /\ diagnostics' = diagnostics \o turnDiagnostics(client, calls)
    /\ \E r \in ScriptedResponses(turnNum + 1, received) :
          /\ resp' = r
          /\ received' = Append(received, r)
    /\ turnNum' = turnNum + 1
    /\ UNCHANGED <<envVars, cliVars, formatVars, previewVars, toolVars, client, historyContext, prompt, pc, promptLog,
                   chatHistory, stored, result, err>>

\* the same pass when the send fails: processResponse returns the error,
\* Generate writes its promptLog and returns
ProcessFunctionCallsSendFails ==
    /\ pc = "interpret"
    /\ IsMalformed(resp) = ""
    /\ ActsOnCalls(resp.parts)
    /\ LET calls == functionCalls(resp.parts)
       IN  /\ respLog' = respLog \o <<funcCallText(calls, turnNum),
                                      funcResponseText(client, calls, turnNum)>>
           /\ dispatched' = dispatched \o toolCalls(client, calls, turnNum)
           /\ sent' = Append(sent, FunctionResponsesMessage(
                                       functionResponses(client, calls, turnNum)))
           /\ diagnostics' = diagnostics \o turnDiagnostics(client, calls)
    /\ result' = Empty
    /\ err' = "failed to send function responses"
    /\ stored' = writePromptLog(promptLog)
    /\ pc' = "done"
    /\ UNCHANGED <<envVars, cliVars, formatVars, previewVars, toolVars, client, historyContext, prompt, resp, turnNum,
                   promptLog, chatHistory, received>>

\* processResponse returning an error for a final response without a command
ProcessFinalRejectsEmpty ==
    /\ pc = "interpret"
    /\ IsMalformed(resp) = ""
    /\ ~ActsOnCalls(resp.parts)
    /\ LET texts == textParts(resp.parts)
       IN  /\ respLog' = IF Len(texts) > 0
                         THEN Append(respLog, Block("MODEL RESPONSE (FINAL)", turnNum,
                                                    <<Line("", "", finalCommand(texts))>>))
                         ELSE respLog
           /\ result' = finalCommand(texts)
    /\ err' = (IF finalCommand(textParts(resp.parts)) = Empty THEN "empty response" ELSE "")
    /\ stored' = writePromptLog(promptLog)
    /\ pc' = "done"
    /\ UNCHANGED <<envVars, cliVars, formatVars, previewVars, toolVars, diagnostics, client, historyContext, prompt, resp, turnNum,
                   promptLog, chatHistory, sent, received, dispatched>>

\* the pass on a response without function calls: processResponse returns
\* the text, Generate writes its promptLog and returns
ProcessFinal ==
    /\ pc = "interpret"
    /\ IsMalformed(resp) = ""
    /\ ~ActsOnCalls(resp.parts)
    /\ LET texts == textParts(resp.parts)
       IN  /\ respLog' = IF Len(texts) > 0
                         THEN Append(respLog, Block("MODEL RESPONSE (FINAL)", turnNum,
                                                    <<Line("", "", finalCommand(texts))>>))
                         ELSE respLog
           /\ result' = finalCommand(texts)
    /\ err' = ""
    /\ stored' = writePromptLog(promptLog)
    /\ pc' = "done"
    /\ UNCHANGED <<envVars, cliVars, formatVars, previewVars, toolVars, diagnostics, client, historyContext, prompt, resp, turnNum,
                   promptLog, chatHistory, sent, received, dispatched>>

(***************************************************************************)
(* The registry on its own: one call of ExecuteTool.                       *)
(***************************************************************************)
ExecuteToolStep ==
    /\ pc = "tool"
    /\ ~toolOutcome.done
    /\ toolOutcome' = [done |-> TRUE,
                       outcome |-> ExecuteTool(toolCall.enabled, toolCall.name, toolCall.args)]
    /\ UNCHANGED <<envVars, cliVars, formatVars, previewVars, engineVars, client, historyContext, prompt, pc, toolCall>>

(***************************************************************************)
(* The preview on its own: one call of formatToolResult.                   *)
(***************************************************************************)
FormatToolResultStep ==
    /\ pc = "format"
    /\ ~resultStr.done
    /\ resultStr' = [done |-> TRUE, text |-> formatToolResult(toolText)]
    /\ UNCHANGED <<envVars, cliVars, previewVars, engineVars, toolVars, client, historyContext,
                   prompt, pc, toolText>>

(***************************************************************************)
(* The history manager on its own: NewManager, then calls of Append.       *)
(***************************************************************************)
NewManagerStep ==
    /\ pc = "manager"
    /\ maxHistory' = NewManager(env)
    /\ pc' = "history"
    /\ UNCHANGED <<envVars, formatVars, previewVars, engineVars, toolVars, client,
                   historyContext, prompt, flags, clientOk, histFile, histFileAtStart,
                   stagedFile, stagedFileAtStart, invocation, appended, stdout, stderr,
                   executed, exitCode, storeLog, appenders>>

\* the text of n characters "x"
Unary(n) == [i \in 1..n |-> "x"]

\* the k-th call of Append: its prompt tells it from the others
AppendStep ==
    /\ pc = "history"
    /\ Len(appended) < MaxAppends
    /\ LET p == Unary(Len(appended) + 1)
           r == <<"n">>
       IN  /\ histFile' = ManagerAppend(maxHistory, histFile, p, r)
           /\ appended' = Append(appended, Entry(p, r))
    /\ storeLog' = storeLog \o AppendOps
    /\ UNCHANGED <<envVars, formatVars, previewVars, engineVars, toolVars, client,
                   historyContext, prompt, pc, flags, clientOk, histFileAtStart, stagedFile,
                   stagedFileAtStart, invocation, maxHistory, stdout, stderr, executed,
                   exitCode, appenders>>

(***************************************************************************)
(* internal/cli: Run.  One invocation of gx goes from pc = "run" to        *)
(* pc = "exit"; a generation passes through Generate ("ready" to "done").  *)
(***************************************************************************)
\* a line printed: its fixed text, the error message or command in it, and
\* for the preview the parts printed
Out(what, msg, text, parts) == [what |-> what, msg |-> msg, text |-> text, parts |-> parts]

S_binsh == <<"/", "b", "i", "n", "/", "s", "h">>

\* executeCommand: the interpreter the command is handed to
commandShell(e, os) ==
    IF os = "windows"
    THEN (IF Getenv(e, "PSModulePath") # Empty THEN S_powershell ELSE S_cmd)
    ELSE (IF Getenv(e, "SHELL") = Empty THEN S_binsh ELSE Getenv(e, "SHELL"))

\* executeCommand: what cmd.Run() can give: the command ran and exited with
\* a status, or it could not be started
CommandOutcomes ==
    {[code |-> 0, err |-> ""], [code |-> 3, err |-> ""], [code |-> 1, err |-> "exec failed"]}

\* the record of one call of executeCommand
Execution(e, os, command) == [shell |-> commandShell(e, os), command |-> command]

\* what Run leaves alone in every branch
RunFrame == UNCHANGED <<envVars, formatVars, previewVars, toolVars, prompt, flags, clientOk,
                        histFileAtStart, stagedFileAtStart, invocation, appenders>>

\* --version
RunVersion ==
    /\ pc = "run"
    /\ flags.version
    /\ stdout' = Append(stdout, Out("gx version %s", "", Empty, <<>>))
    /\ exitCode' = 0
    /\ pc' = "exit"
    /\ RunFrame
    /\ UNCHANGED <<engineVars, storeLog, client, historyContext, histFile, stagedFile, maxHistory,
                   appended, stderr, executed>>

\* Run with -c removing the history file only
RunClearHistoryOnly ==
    /\ pc = "run"
    /\ ~flags.version
    /\ flags.c
    /\ maxHistory' = NewManager(env)
    /\ histFile' = NoFile
    /\ stagedFile' = stagedFile
    /\ stdout' = Append(stdout, Out("History and staged commands cleared.", "", Empty, <<>>))
    /\ exitCode' = 0
    /\ pc' = "exit"
    /\ RunFrame
    /\ storeLog' = storeLog \o ClearOps
    /\ UNCHANGED <<engineVars, client, historyContext, appended, stderr, executed>>

\* -c: Manager.Clear removes both files
RunClear ==
    /\ pc = "run"
    /\ ~flags.version
    /\ flags.c
    /\ maxHistory' = NewManager(env)
    /\ histFile' = NoFile
    /\ stagedFile' = NotStaged
    /\ stdout' = Append(stdout, Out("History and staged commands cleared.", "", Empty, <<>>))
    /\ exitCode' = 0
    /\ pc' = "exit"
    /\ RunFrame
    /\ storeLog' = storeLog \o ClearOps
    /\ UNCHANGED <<engineVars, client, historyContext, appended, stderr, executed>>

\* -x: executeStaged
RunExecuteStaged ==
    /\ pc = "run"
    /\ ~flags.version
    /\ ~flags.c
    /\ flags.x
    /\ maxHistory' = NewManager(env)
    /\ LET staged == GetStagedCommand(stagedFile)
       IN  IF staged.err # ""
           THEN /\ stderr' = Append(stderr, Out("Error: %v", staged.err, Empty, <<>>))
                /\ exitCode' = 1
                /\ UNCHANGED <<stdout, executed>>
           ELSE \E out \in CommandOutcomes :
                   /\ stdout' = stdout \o <<Out("Executing: %s", "", staged.command, <<>>),
                                             Out("---", "", Empty, <<>>)>>
                   /\ executed' = Append(executed, Execution(env, goos, staged.command))
                   /\ IF out.err # ""
                      THEN /\ stderr' = Append(stderr, Out("Error: %v", out.err, Empty, <<>>))
                           /\ exitCode' = 1
                      ELSE /\ stderr' = stderr
                           /\ exitCode' = out.code
    /\ pc' = "exit"
    /\ RunFrame
    /\ UNCHANGED <<engineVars, storeLog, client, historyContext, histFile, stagedFile, appended>>

\* no prompt: the usage text
RunUsage ==
    /\ pc = "run"
    /\ ~flags.version
    /\ ~flags.c
    /\ ~flags.x
    /\ prompt = Empty
    /\ maxHistory' = NewManager(env)
    /\ stderr' = Append(stderr, Out("usage", "", Empty, <<>>))
    /\ exitCode' = 1
    /\ pc' = "exit"
    /\ RunFrame
    /\ UNCHANGED <<engineVars, storeLog, client, historyContext, histFile, stagedFile, appended,
                   stdout, executed>>

\* -p that also stages the text of the prompt
RunPrintPromptStaging ==
    /\ pc = "run"
    /\ ~flags.version
    /\ ~flags.c
    /\ ~flags.x
    /\ prompt # Empty
    /\ flags.p
    /\ clientOk
    /\ maxHistory' = NewManager(env)
    /\ client' = NewClient(cfg, env, goos, uname, revision)
    /\ historyContext' = GetRecentContext(histFile, 3).entries
    /\ stdout' = Append(stdout, Out("preview", "", Empty,
                                    BuildPrompt(client', env, goos, revision, prompt,
                                                historyContext')))
    /\ stagedFile' = StageCommand(prompt)
    /\ exitCode' = 0
    /\ pc' = "exit"
    /\ RunFrame
    /\ storeLog' = storeLog \o GetRecentContextOps
    /\ UNCHANGED <<engineVars, histFile, appended, stderr, executed>>

\* -p: the preview is built and printed
RunPrintPrompt ==
    /\ pc = "run"
    /\ ~flags.version
    /\ ~flags.c
    /\ ~flags.x
    /\ prompt # Empty
    /\ flags.p
    /\ maxHistory' = NewManager(env)
    /\ IF ~clientOk
       THEN /\ stderr' = Append(stderr, Out("Error: %v", "failed to create client", Empty, <<>>))
            /\ exitCode' = 1
            /\ UNCHANGED <<client, historyContext, stdout, storeLog>>
       ELSE /\ client' = NewClient(cfg, env, goos, uname, revision)
            /\ historyContext' = GetRecentContext(histFile, 3).entries
            /\ stdout' = Append(stdout, Out("preview", "", Empty,
                                            BuildPrompt(client', env, goos, revision, prompt,
                                                        historyContext')))
            /\ exitCode' = 0
            /\ stderr' = stderr
            /\ storeLog' = storeLog \o GetRecentContextOps
    /\ pc' = "exit"
    /\ RunFrame
    /\ UNCHANGED <<engineVars, histFile, stagedFile, appended, executed>>

\* generateCommand when NewClient fails
RunGenerateNoClient ==
    /\ pc = "run"
    /\ ~flags.version
    /\ ~flags.c
    /\ ~flags.x
    /\ prompt # Empty
    /\ ~flags.p
    /\ ~clientOk
    /\ maxHistory' = NewManager(env)
    /\ historyContext' = GetRecentContext(histFile, 3).entries
    /\ stderr' = Append(stderr, Out("Error: %v", "failed to create client", Empty, <<>>))
    /\ exitCode' = 1
    /\ pc' = "exit"
    /\ RunFrame
    /\ storeLog' = storeLog \o GetRecentContextOps
    /\ UNCHANGED <<engineVars, client, histFile, stagedFile, appended, stdout, executed>>

\* generateCommand up to its call of client.Generate
RunGenerate ==
    /\ pc = "run"
    /\ ~flags.version
    /\ ~flags.c
    /\ ~flags.x
    /\ prompt # Empty
    /\ ~flags.p
    /\ clientOk
    /\ maxHistory' = NewManager(env)
    /\ historyContext' = GetRecentContext(histFile, 3).entries
    /\ client' = NewClient(cfg, env, goos, uname, revision)
    /\ pc' = "ready"
    /\ RunFrame
    /\ storeLog' = storeLog \o GetRecentContextOps
    /\ UNCHANGED <<engineVars, histFile, stagedFile, appended, stdout, stderr, executed,
                   exitCode>>

\* Run staging the empty command generateCommand returned with its error
RunGenerateFailedStaging ==
    /\ pc = "done"
    /\ err # ""
    /\ stderr' = Append(stderr, Out("Error: %v", err, Empty, <<>>))
    /\ exitCode' = 1
    /\ stagedFile' = StageCommand(result)
    /\ pc' = "exit"
    /\ RunFrame
    /\ UNCHANGED <<engineVars, storeLog, client, historyContext, histFile, maxHistory,
                   appended, stdout, executed>>

\* Run after generateCommand has returned an error
RunGenerateFailed ==
    /\ pc = "done"
    /\ err # ""
    /\ stderr' = Append(stderr, Out("Error: %v", err, Empty, <<>>))
    /\ exitCode' = 1
    /\ pc' = "exit"
    /\ RunFrame
    /\ UNCHANGED <<engineVars, storeLog, client, historyContext, histFile, stagedFile, maxHistory,
                   appended, stdout, executed>>

\* Run after generateCommand has returned a command: print, stage, append
\* to the history, and with -y execute
RunGenerated ==
    /\ pc = "done"
    /\ err = ""
    /\ stagedFile' = StageCommand(result)
    /\ histFile' = ManagerAppend(maxHistory, histFile, prompt, result)
    /\ appended' = Append(appended, Entry(prompt, result))
    /\ IF flags.y
       THEN \E out \in CommandOutcomes :
               /\ stdout' = Append(stdout, Out("command", "", result, <<>>))
               /\ executed' = Append(executed, Execution(env, goos, result))
               /\ IF out.err # ""
                  THEN /\ stderr' = stderr \o <<Out("--- Executing ---", "", Empty, <<>>),
                                                  Out("Execution error: %v", out.err, Empty, <<>>)>>
                       /\ exitCode' = 1
                  ELSE /\ stderr' = Append(stderr, Out("--- Executing ---", "", Empty, <<>>))
                       /\ exitCode' = out.code
       ELSE /\ stdout' = Append(stdout, Out("command", "", result, <<>>))
            /\ exitCode' = 0
            /\ UNCHANGED <<stderr, executed>>
    /\ pc' = "exit"
    /\ RunFrame
    /\ storeLog' = storeLog \o AppendOps
    /\ UNCHANGED <<engineVars, client, historyContext, maxHistory>>

\* a later invocation, gx -x, on the files the first one left
RunAgainExecute ==
    /\ pc = "exit"
    /\ invocation = 1
    /\ invocation' = 2
    /\ flags' = [version |-> FALSE, c |-> FALSE, x |-> TRUE, p |-> FALSE, y |-> FALSE]
    /\ histFileAtStart' = histFile
    /\ stagedFileAtStart' = stagedFile
    /\ stdout' = <<>>
    /\ stderr' = <<>>
    /\ executed' = <<>>
    /\ exitCode' = -1
    /\ storeLog' = <<>>
    /\ pc' = "run"
    /\ UNCHANGED <<envVars, appenders, formatVars, previewVars, toolVars, engineVars, client,
                   historyContext, prompt, clientOk, histFile, stagedFile, maxHistory,
                   appended>>

(***************************************************************************)
(* Specifications.                                                         *)
(***************************************************************************)
S_binbash == <<"/", "b", "i", "n", "/", "b", "a", "s", "h">>
S_generic == <<"6", ".", "1", "-", "g", "e", "n", "e", "r", "i", "c">>

\* the variables of the process environment: those the program reads, and
\* one it does not
ProcessEnvNames == EnvNames \cup {"GX_API_TOKEN"}

UnsetEnv == [key \in ProcessEnvNames |-> Empty]
DefaultEnv == [UnsetEnv EXCEPT !["SHELL"] = S_binbash]

IdleEngine ==
    /\ resp = NoResponse
    /\ turnNum = 0
    /\ promptLog = <<>>
    /\ respLog = <<>>
    /\ chatHistory = <<>>
    /\ sent = <<>>
    /\ received = <<>>
    /\ dispatched = <<>>
    /\ stored = [written |-> FALSE, content |-> <<>>]
    /\ result = Empty
    /\ err = ""
    /\ diagnostics = <<>>

IdleTools ==
    /\ toolCall = [enabled |-> FALSE, name |-> "", args |-> NoArgs]
    /\ toolOutcome = [done |-> FALSE, outcome |-> Outcome(<<>>, "", "none")]

IdleCli ==
    /\ flags = [version |-> FALSE, c |-> FALSE, x |-> FALSE, p |-> FALSE, y |-> FALSE]
    /\ clientOk = TRUE
    /\ histFile = NoFile
    /\ histFileAtStart = NoFile
    /\ stagedFile = NotStaged
    /\ stagedFileAtStart = NotStaged
    /\ invocation = 1
    /\ maxHistory = DefaultMaxHistory
    /\ appended = <<>>
    /\ stdout = <<>>
    /\ stderr = <<>>
    /\ executed = <<>>
    /\ exitCode = -1
    /\ storeLog = <<>>
    /\ appenders = NoAppenders

IdleFormat ==
    /\ toolText = Empty
    /\ resultStr = [done |-> FALSE, text |-> Empty]
    /\ preview = [done |-> FALSE, parts |-> <<>>, sep |-> Empty]

\* one generating invocation against a scripted model
Init ==
    /\ env = DefaultEnv
    /\ goos = "linux"
    /\ uname = [ok |-> TRUE, out |-> S_generic]
    /\ cfg \in [Verbose : BOOLEAN, NoTools : BOOLEAN]
    /\ revision = "client.go"
    /\ client = NoClient
    /\ historyContext \in Histories
    /\ prompt = S_prompt
    /\ pc = "new"
    /\ model = "scripted"
    /\ IdleEngine
    /\ IdleCli
    /\ IdleTools
    /\ IdleFormat

Next ==
    \/ NewClientStep
    \/ BuildPromptStep
    \/ GenerateSendFails
    \/ GenerateSendOk
    \/ ProcessProtocolError
    \/ ProcessFunctionCallsSendOk
    \/ ProcessFunctionCallsSendFails
    \/ ProcessFinal

Spec == Init /\ [][Next]_vars

\* Generate on an empty history, for every configuration of the client
InitEngine ==
    /\ env = DefaultEnv
    /\ goos = "linux"
    /\ uname = [ok |-> TRUE, out |-> S_generic]
    /\ cfg \in [Verbose : BOOLEAN, NoTools : BOOLEAN]
    /\ revision = "client.go"
    /\ model = "scripted"
    /\ client = NoClient
    /\ historyContext = <<>>
    /\ prompt = S_prompt
    /\ pc = "new"
    /\ IdleEngine
    /\ IdleCli
    /\ IdleTools
    /\ IdleFormat

NextEngine ==
    \/ NewClientStep
    \/ GenerateSendFails
    \/ GenerateSendOk
    \/ ProcessProtocolError
    \/ ProcessFunctionCallsSendOk
    \/ ProcessFunctionCallsSendFails
    \/ ProcessFinal

SpecEngine == InitEngine /\ [][NextEngine]_vars

\* Generate against both models, every step of the program taken in the
\* end: a call of SendMessage returns
InitLive ==
    /\ env = DefaultEnv
    /\ goos = "linux"
    /\ uname = [ok |-> TRUE, out |-> S_generic]
    /\ cfg = [Verbose |-> FALSE, NoTools |-> FALSE]
    /\ revision = "client.go"
    /\ model \in {"scripted", "calling"}
    /\ client = NoClient
    /\ historyContext = <<>>
    /\ prompt = S_prompt
    /\ pc = "new"
    /\ IdleEngine
    /\ IdleCli
    /\ IdleTools
    /\ IdleFormat

NextLive ==
    \/ NewClientStep
    \/ GenerateSendFails
    \/ GenerateSendOk
    \/ ProcessProtocolError
    \/ ProcessFunctionCallsSendOk
    \/ ProcessFunctionCallsSendFails
    \/ ProcessFinal

SpecLive == InitLive /\ [][NextLive]_vars /\ WF_vars(NextLive)

\* the paths, names and argument maps handed to the registry
ArgValues ==
    {Absent, BoolValue(TRUE), BoolValue(FALSE), NumberValue(S_one), StringValue(Empty)}
    \cup {StringValue(p) : p \in Paths}

ToolCallNames == {"pwd", "ls", "stat", "cat", "ps", "uptime", "rm", ""}

InitTools ==
    /\ env = DefaultEnv
    /\ goos = "linux"
    /\ uname = [ok |-> TRUE, out |-> S_generic]
    /\ cfg = [Verbose |-> FALSE, NoTools |-> FALSE]
    /\ revision = "client.go"
    /\ client = NoClient
    /\ historyContext = <<>>
    /\ prompt = S_prompt
    /\ pc = "tool"
    /\ model = "scripted"
    /\ IdleEngine
    /\ IdleCli
    /\ toolCall \in [enabled : BOOLEAN, name : ToolCallNames,
                     args : [path : ArgValues, recursive : ArgValues]]
    /\ toolOutcome = [done |-> FALSE, outcome |-> Outcome(<<>>, "", "none")]
    /\ IdleFormat

NextTools == ExecuteToolStep

SpecTools == InitTools /\ [][NextTools]_vars

\* the tool results handed to formatToolResult: texts of the lengths
\* ResultLengths with newlines at up to two of the indices (from 0)
\* NewlineIndices
ResultLengths == {0, 1, 150, 199, 200, 201, 202, 250, 251}
NewlineIndices == {0, 100, 149, 150, 151, 160, 198, 199, 200, 201, 249}

TextOf(n, newlines) == [i \in 1..n |-> IF (i - 1) \in newlines THEN "\n" ELSE "x"]

ToolResults ==
    {TextOf(n, {a, b}) : n \in ResultLengths, a \in NewlineIndices, b \in NewlineIndices}
    \cup {TextOf(n, {}) : n \in ResultLengths}

InitFormat ==
    /\ env = DefaultEnv
    /\ goos = "linux"
    /\ uname = [ok |-> TRUE, out |-> S_generic]
    /\ cfg = [Verbose |-> TRUE, NoTools |-> FALSE]
    /\ revision = "client.go"
    /\ client = NoClient
    /\ historyContext = <<>>
    /\ prompt = S_prompt
    /\ pc = "format"
    /\ model = "scripted"
    /\ IdleEngine
    /\ IdleCli
    /\ IdleTools
    /\ toolText \in ToolResults
    /\ resultStr = [done |-> FALSE, text |-> Empty]
    /\ preview = [done |-> FALSE, parts |-> <<>>, sep |-> Empty]

NextFormat == FormatToolResultStep

SpecFormat == InitFormat /\ [][NextFormat]_vars

\* the values of GX_HISTORY
S_two == <<"2">>
S_zero == <<"0">>
S_minusone == <<"-", "1">>
S_abc == <<"a", "b", "c">>
S_plusthree == <<"+", "3">>
S_twelve == <<"1", "2">>
S_spacetwo == <<" ", "2">>
S_twodotzero == <<"2", ".", "0">>

HistorySettings ==
    {Empty, S_two, S_zero, S_minusone, S_abc, S_plusthree, S_twelve, S_spacetwo, S_twodotzero}

\* the entries stored before the first Append: n entries, oldest first
Stored(n) == [i \in 1..n |-> Entry(Unary(i), <<"o">>)]

StoredFiles == {NoFile, MalformedFile, EntriesFile(<<>>), EntriesFile(Stored(1)),
                EntriesFile(Stored(3)), EntriesFile(Stored(12))}

InitHistory ==
    /\ env \in {[DefaultEnv EXCEPT !["GX_HISTORY"] = h] : h \in HistorySettings}
    /\ goos = "linux"
    /\ uname = [ok |-> TRUE, out |-> S_generic]
    /\ cfg = [Verbose |-> FALSE, NoTools |-> FALSE]
    /\ revision = "client.go"
    /\ client = NoClient
    /\ historyContext = <<>>
    /\ prompt = S_prompt
    /\ pc = "manager"
    /\ model = "scripted"
    /\ IdleEngine
    /\ IdleTools
    /\ IdleFormat
    /\ flags = [version |-> FALSE, c |-> FALSE, x |-> FALSE, p |-> FALSE, y |-> FALSE]
    /\ clientOk = TRUE
    /\ histFile \in StoredFiles
    /\ histFileAtStart = histFile
    /\ stagedFile = NotStaged
    /\ stagedFileAtStart = NotStaged
    /\ invocation = 1
    /\ maxHistory = 0
    /\ appended = <<>>
    /\ stdout = <<>>
    /\ stderr = <<>>
    /\ executed = <<>>
    /\ exitCode = -1
    /\ storeLog = <<>>
    /\ appenders = NoAppenders

NextHistory ==
    \/ NewManagerStep
    \/ AppendStep

SpecHistory == InitHistory /\ [][NextHistory]_vars

\* a command staged before the invocation
S_staged == <<"p", "w", "d">>

\* invocations of gx: every combination of the flags, with and without a
\* prompt, on a history and a staging file left by earlier invocations
InitCli ==
    /\ env = DefaultEnv
    /\ goos = "linux"
    /\ uname = [ok |-> TRUE, out |-> S_generic]
    /\ cfg = [Verbose |-> FALSE, NoTools |-> FALSE]
    /\ revision = "client.go"
    /\ client = NoClient
    /\ historyContext = <<>>
    /\ prompt \in {Empty, S_prompt}
    /\ pc = "run"
    /\ model = "brief"
    /\ IdleEngine
    /\ IdleTools
    /\ IdleFormat
    /\ flags \in [version : BOOLEAN, c : BOOLEAN, x : BOOLEAN, p : BOOLEAN, y : BOOLEAN]
    /\ clientOk \in BOOLEAN
    /\ histFile \in {NoFile, MalformedFile, EntriesFile(Stored(4))}
    /\ histFileAtStart = histFile
    /\ stagedFile \in {NotStaged, StageCommand(S_staged)}
    /\ stagedFileAtStart = stagedFile
    /\ invocation = 1
    /\ maxHistory = 0
    /\ appended = <<>>
    /\ stdout = <<>>
    /\ stderr = <<>>
    /\ executed = <<>>
    /\ exitCode = -1
    /\ storeLog = <<>>
    /\ appenders = NoAppenders

NextCli ==
    \/ RunVersion
    \/ RunClear
    \/ RunExecuteStaged
    \/ RunUsage
    \/ RunPrintPrompt
    \/ RunGenerateNoClient
    \/ RunGenerate
    \/ GenerateSendFails
    \/ GenerateSendOk
    \/ ProcessProtocolError
    \/ ProcessFunctionCallsSendOk
    \/ ProcessFunctionCallsSendFails
    \/ ProcessFinal
    \/ RunGenerateFailed
    \/ RunGenerated
    \/ RunAgainExecute

SpecCli == InitCli /\ [][NextCli]_vars

\* the environments the detector and the instruction builder are run in
S_zsh == <<"/", "b", "i", "n", "/", "z", "s", "h">>
S_usrcmd == <<"/", "u", "s", "r", "/", "c", "m", "d">>
S_modules == <<"C", ":", "\\", "M", "o", "d", "u", "l", "e", "s">>
S_comspec == <<"C", ":", "\\", "W", "i", "n", "\\", "C", "M", "D", ".", "E", "X", "E">>
S_tcc == <<"C", ":", "\\", "t", "c", "c", ".", "e", "x", "e">>
S_wslkernel == <<"5", ".", "1", "5", "-", "M", "i", "c", "r", "o", "s", "o", "f", "t">>

S_secret == <<"s", "3", "c", "r", "3", "t">>

Environments ==
    {[UnsetEnv EXCEPT !["SHELL"] = sh, !["PSModulePath"] = ps, !["ComSpec"] = cs,
                      !["GX_API_TOKEN"] = tok] :
        sh \in {Empty, S_zsh, S_usrcmd, S_pwsh},
        ps \in {Empty, S_modules},
        cs \in {Empty, S_comspec, S_tcc},
        tok \in {Empty, S_secret}}

InitEnv ==
    /\ env \in Environments
    /\ goos \in {"linux", "windows", "darwin"}
    /\ uname \in {[ok |-> FALSE, out |-> Empty], [ok |-> TRUE, out |-> S_generic],
                  [ok |-> TRUE, out |-> S_wslkernel]}
    /\ cfg \in [Verbose : BOOLEAN, NoTools : BOOLEAN]
    /\ revision \in {"client.go", "version.go"}
    /\ client = NoClient
    /\ historyContext = <<>>
    /\ prompt = S_prompt
    /\ pc = "new"
    /\ model = "scripted"
    /\ IdleEngine
    /\ IdleCli
    /\ IdleTools
    /\ IdleFormat

NextEnv == NewClientStep

SpecEnv == InitEnv /\ [][NextEnv]_vars

(***************************************************************************)
(* Properties.                                                             *)
(***************************************************************************)
CallsOf(r) == SelectSeq(r.parts, IsCall)
TextsOf(r) == SelectSeq(r.parts, IsText)
\* the response received[i] has been acted on: a later response came, or
\* Generate has returned
Processed(i) == i < Len(received) \/ pc = "done"
Last(s) == s[Len(s)]

\* C1: the message sent after a response with n >= 1 function calls is one
\* message of exactly n function responses, the i-th named after the i-th
\* call, whichever calls failed; there is one send per response.
C1_BatchInvariant ==
    /\ Len(sent) <= Len(received) + 1
    /\ \A i \in 1..Len(received) :
          (Len(CallsOf(received[i])) >= 1 /\ Processed(i)) =>
             /\ Len(sent) >= i + 1
             /\ sent[i + 1].kind = "functionResponses"
             /\ Len(sent[i + 1].parts) = Len(CallsOf(received[i]))
             /\ \A j \in 1..Len(CallsOf(received[i])) :
                   sent[i + 1].parts[j].name = CallsOf(received[i])[j].name

\* a turn of three calls, one that fails to parse, one tool error and one
\* success, has been answered
C1_Witness ==
    /\ Len(sent) >= 2
    /\ Len(received) >= 1
    /\ CallsOf(received[1]) =
          <<CallPart("ls", Args(Absent, NumberValue(S_NaN))), CallPart("cat", NoArgs),
            CallPart("pwd", NoArgs)>>
    /\ Len(sent[2].parts) = 3
    /\ sent[2].parts[1].error = "failed to marshal args"
    /\ sent[2].parts[3].key = "result"

\* C2: when the first k responses each hold a function call and response
\* k+1 holds only text, Generate returns that text, joined by newlines and
\* trimmed, with no error, after k rounds of dispatch and k follow-up sends.
C2_TurnTermination ==
    (/\ pc = "done"
     /\ Len(received) >= 1
     /\ \A i \in 1..(Len(received) - 1) : Len(CallsOf(received[i])) >= 1
     /\ Last(received).content
     /\ Len(TextsOf(Last(received))) >= 1
     /\ Len(CallsOf(Last(received))) = 0)
    => LET k == Len(received) - 1
           texts == [i \in 1..Len(TextsOf(Last(received))) |-> TextsOf(Last(received))[i].text]
       IN  /\ err = ""
           /\ result = TrimSpace(Join(texts, <<"\n">>))
           /\ Len(sent) = k + 1
           /\ \A i \in 2..Len(sent) : sent[i].kind = "functionResponses"
           /\ Len(SelectSeq(respLog, LAMBDA b : b.header = "TOOL RESPONSES")) = k
           /\ \A t \in 1..k :
                 Len(SelectSeq(dispatched, LAMBDA d : d.turn = t))
                    = Len(SelectSeq(CallsOf(received[t]), LAMBDA fc : Marshalable(fc.args)))
           /\ \A n \in 1..Len(dispatched) : dispatched[n].turn \in 1..k

\* the stated case: one turn of function calls, then text
C2_Witness ==
    /\ pc = "done"
    /\ Len(received) = 2
    /\ received[1] = Response(<<CallPart("pwd", NoArgs)>>)
    /\ received[2] = Response(<<TextPart(S_command)>>)
    /\ result = <<"l", "s">>
    /\ err = ""
    /\ Len(dispatched) = 1

\* C3: a successful return happens only on a response without function
\* calls, and every response that holds a function call is acted on and
\* answered with a follow-up send; no text of such a response is returned.
C3_CallsOverrideText ==
    /\ (pc = "done" /\ err = "") =>
          /\ Len(received) >= 1
          /\ Len(CallsOf(Last(received))) = 0
          /\ \A i \in 1..(Len(received) - 1) : Len(CallsOf(received[i])) >= 1
    /\ \A i \in 1..Len(received) :
          (Len(CallsOf(received[i])) >= 1 /\ Processed(i)) =>
             /\ Len(sent) >= i + 1
             /\ sent[i + 1].kind = "functionResponses"
             /\ \E b \in 1..Len(respLog) :
                   respLog[b].header = "TOOL RESPONSES" /\ respLog[b].turn = i

\* a response holding both a function call and text was answered with a
\* follow-up, and Generate returned the text of the next response
C3_Witness ==
    /\ pc = "done"
    /\ err = ""
    /\ Len(received) = 2
    /\ received[1] = Response(<<TextPart(S_command), CallPart("pwd", NoArgs)>>)
    /\ received[2] = Response(<<>>)
    /\ result = Empty

\* the errors Generate returns: the two transport and the two protocol errors
TransportErrors == {"failed to generate response", "failed to send function responses"}
ProtocolErrors == {"no response candidates", "empty response content"}

\* the function call fc fails: its arguments do not parse, or the registry
\* returns an error for it
CallFails(fc) ==
    \/ ~Marshalable(fc.args)
    \/ ExecuteTool(client.tools, fc.name, fc.args).err # ""

\* C4: a call that fails (arguments that do not parse, an unknown tool, an
\* argument or an execution error) is answered in the turn's batch by an
\* error text and no result, the other calls of the turn are answered too,
\* the follow-up is sent, and Generate returns no error for it.
C4_ToolErrorsAreLocal ==
    /\ err \in {""} \cup TransportErrors \cup ProtocolErrors
    /\ \A i \in 1..Len(received) :
          (Len(CallsOf(received[i])) >= 1 /\ Processed(i)) =>
             /\ Len(sent) >= i + 1
             /\ Len(sent[i + 1].parts) = Len(CallsOf(received[i]))
             /\ \A j \in 1..Len(CallsOf(received[i])) :
                   LET fc == CallsOf(received[i])[j]
                       part == sent[i + 1].parts[j]
                   IN  IF CallFails(fc)
                       THEN part.key = "error" /\ part.error # "" /\ part.result = <<>>
                       ELSE part.key = "result" /\ part.error = ""
    /\ (pc = "done" /\ Len(received) >= 1 /\ Last(received).content
        /\ Len(CallsOf(Last(received))) = 0) => err = ""

\* with tools enabled, a turn with an argument error and an unknown tool was
\* answered and Generate went on to return the next response's text
C4_Witness ==
    /\ pc = "done"
    /\ client.tools
    /\ err = ""
    /\ Len(received) = 2
    /\ received[1] = Response(<<CallPart("cat", NoArgs), CallPart("rm", NoArgs)>>)
    /\ sent[2].parts[1].error = "cat requires a path argument"
    /\ sent[2].parts[2].error = "unknown tool"
    /\ result = <<"l", "s">>

\* C5: a response without candidates, or whose first candidate has no
\* content, ends the invocation: Generate returns an error and an empty
\* command, and nothing is sent or dispatched after that response.
C5_ProtocolErrorIsFatal ==
    \A i \in 1..Len(received) :
       (received[i].candidates = 0 \/ ~received[i].content) =>
          /\ i = Len(received)
          /\ Len(sent) = i
          /\ \A n \in 1..Len(dispatched) : dispatched[n].turn < i
          /\ pc = "done" => (err \in ProtocolErrors /\ result = Empty)

\* after one tool-calling turn the model answers with a candidate without
\* content, and Generate has returned
C5_Witness ==
    /\ pc = "done"
    /\ Len(received) = 2
    /\ received[2] = NilContent
    /\ err = "empty response content"
    /\ Len(sent) = 2

\* the blocks <<header, turn>> of a transcript
Headers(log) == [i \in 1..Len(log) |-> <<log[i].header, log[i].turn>>]

\* C6: when a send fails, Generate returns an error and an empty command,
\* sends and dispatches nothing more, and the file holds the transcript
\* accumulated so far: the prompt and, for every function-response message
\* sent, that turn's function-call and tool-response blocks.
C6_TranscriptOnSendFailure ==
    (pc = "done" /\ err \in TransportErrors) =>
       /\ result = Empty
       /\ Len(sent) = Len(received) + 1
       /\ stored.written
       /\ \E b \in 1..Len(stored.content) : stored.content[b].header = "USER PROMPT"
       /\ \A t \in 1..(Len(sent) - 1) :
             /\ \E b \in 1..Len(stored.content) :
                   Headers(stored.content)[b] = <<"MODEL RESPONSE (FUNCTION CALLS)", t>>
             /\ \E b \in 1..Len(stored.content) :
                   Headers(stored.content)[b] = <<"TOOL RESPONSES", t>>

\* the blocks the transcript holds, by C7, when Generate returns
ExpectedHeaders ==
    <<<<"SYSTEM INSTRUCTION", 0>>>>
    \o (IF Len(historyContext) > 0 THEN <<<<"HISTORY CONTEXT", 0>>>> ELSE <<>>)
    \o <<<<"USER PROMPT", 0>>>>
    \o Flatten([t \in 1..(Len(sent) - 1) |->
                   <<<<"MODEL RESPONSE (FUNCTION CALLS)", t>>, <<"TOOL RESPONSES", t>>>>])
    \o (IF err = "" /\ Len(received) >= 1 /\ Len(TextsOf(Last(received))) >= 1
        THEN <<<<"MODEL RESPONSE (FINAL)", Len(received)>>>>
        ELSE <<>>)

\* C7: the transcript written when Generate returns holds, in order, the
\* system instruction, the history block when history is non-empty, the
\* user prompt, each tool-calling turn's function-call and tool-response
\* blocks, and the final-answer block when the model ended with text.
C7_TranscriptBlocks ==
    pc = "done" => (stored.written /\ Headers(stored.content) = ExpectedHeaders)

\* C8: with tools disabled ExecuteTool answers "tools are disabled" for
\* every name and argument map, and runs no tool operation.
C8_DisabledDispatch ==
    (toolOutcome.done /\ ~toolCall.enabled) =>
       /\ toolOutcome.outcome.err = "tools are disabled"
       /\ toolOutcome.outcome.op = "none"
       /\ toolOutcome.outcome.result = <<>>

\* a cat of a readable file, which tools enabled would read, was refused
C8_Witness ==
    /\ toolOutcome.done
    /\ ~toolCall.enabled
    /\ toolCall.name = "cat"
    /\ toolCall.args.path = StringValue(S_notes)
    /\ toolOutcome.outcome.err = "tools are disabled"

\* the names of the tools the instruction's AVAILABLE TOOLS section lists
CatalogNames(instruction) ==
    LET catalog == SelectSeq(instruction, LAMBDA l : l.label = "AVAILABLE TOOLS")
    IN  [i \in 1..Len(catalog) |-> catalog[i].name]

\* C9: with tools disabled the registry lists no definitions, the model's
\* tool set is unset and the instruction neither lists tools nor says that
\* tools are available; with tools enabled the instruction's catalog lists
\* exactly the tools the registry exposes.
C9_ToolCatalog ==
    client.constructed =>
       /\ ~client.tools =>
             /\ GetToolDefinitions(client.tools) = <<>>
             /\ ~client.modelTools.set
             /\ CatalogNames(client.systemInstruction) = <<>>
             /\ \A i \in 1..Len(client.systemInstruction) :
                   client.systemInstruction[i].name # ToolsNote
       /\ client.tools =>
             /\ client.modelTools.set
             /\ CatalogNames(client.systemInstruction) = GetToolDefinitions(client.tools)

\* C10 as stated: PSModulePath and ComSpec both set give "powershell",
\* whatever SHELL holds.
C10_PowerShellWheneverBothSet ==
    (client.constructed /\ env["PSModulePath"] # Empty /\ env["ComSpec"] # Empty) =>
       (client.shell = S_powershell /\ client.shell # S_cmd)

\* C10, amended: with SHELL unset or empty, PSModulePath and ComSpec both
\* set give "powershell" and never "cmd", on every OS; with SHELL set the
\* shell is the last "/"-separated component of SHELL.
C10_PowerShellBeforeCmd ==
    client.constructed =>
       /\ (env["SHELL"] = Empty /\ env["PSModulePath"] # Empty /\ env["ComSpec"] # Empty) =>
             (client.shell = S_powershell /\ client.shell # S_cmd)
       /\ env["SHELL"] = S_zsh => client.shell = <<"z", "s", "h">>
       /\ env["SHELL"] = S_usrcmd => client.shell = S_cmd
       /\ env["SHELL"] = S_pwsh => client.shell = S_pwsh

\* a PowerShell session on a non-Windows OS whose ComSpec names cmd.exe
C10_Witness ==
    /\ client.constructed
    /\ env["SHELL"] = Empty
    /\ env["PSModulePath"] = S_modules
    /\ env["ComSpec"] = S_comspec
    /\ goos = "linux"
    /\ client.shell = S_powershell

\* the instruction holds a line with the fixed text `text`
HasText(instruction, text) ==
    \E i \in 1..Len(instruction) : instruction[i].name = text

\* C11: the instruction holds the REM-avoidance warning exactly when the
\* detected shell is powershell or pwsh, and the REM-usage note exactly when
\* it is cmd (so neither for any other shell), whatever the verbosity, the
\* environment, the tool setting and the revision of the builder.
C11_WarningExclusivity ==
    client.constructed =>
       /\ HasText(client.systemInstruction, PowerShellWarning)
             <=> client.shell \in {S_powershell, S_pwsh}
       /\ HasText(client.systemInstruction, CmdWarning) <=> client.shell = S_cmd
       /\ ~(HasText(client.systemInstruction, PowerShellWarning)
            /\ HasText(client.systemInstruction, CmdWarning))

\* a pwsh session, verbose and without tools, whose instruction warns
\* against REM
C11_Witness ==
    /\ client.constructed
    /\ client.shell = S_pwsh
    /\ cfg.Verbose
    /\ cfg.NoTools
    /\ HasText(client.systemInstruction, PowerShellWarning)
    /\ ~HasText(client.systemInstruction, CmdWarning)

\* the name of the variable contains a sensitivity pattern, in any case
Sensitive(key) ==
    LET upper == ToUpper(Spell(key))
    IN  \E pattern \in sensitivePatterns : Contains(upper, pattern)

\* the lines of the instruction's ENVIRONMENT block
EnvironmentBlock(instruction) ==
    SelectSeq(instruction, LAMBDA l : l.label = "ENVIRONMENT")

\* the value val stands somewhere in the instruction
Shows(instruction, val) ==
    \E i \in 1..Len(instruction) : Contains(instruction[i].data, val)

\* C12 as stated: every sensitive name is redacted in the ENVIRONMENT
\* block, and a set GX_API_TOKEN is shown there with the redaction marker
\* and without its value.
C12_TokenShownRedacted ==
    (client.constructed /\ revision = "version.go" /\ env["GX_API_TOKEN"] # Empty) =>
       /\ \E i \in 1..Len(EnvironmentBlock(client.systemInstruction)) :
             /\ EnvironmentBlock(client.systemInstruction)[i].name = "GX_API_TOKEN"
             /\ EnvironmentBlock(client.systemInstruction)[i].data = S_redacted
       /\ ~Shows(client.systemInstruction, env["GX_API_TOKEN"])

\* C12, amended: sanitize replaces the value of every sensitive name by the
\* marker, no line of the ENVIRONMENT block shows the value of a sensitive
\* name, and a set GX_API_TOKEN, which is not among the variables the block
\* lists, has no line at all: neither its value nor a marker reaches the
\* model.
C12_Redaction ==
    client.constructed =>
          /\ \A key \in {"GX_API_TOKEN", "PATH"} :
                sanitize(key, env[key]) = (IF Sensitive(key) THEN S_redacted ELSE env[key])
          /\ Sensitive("GX_API_TOKEN")
          /\ \A i \in 1..Len(EnvironmentBlock(client.systemInstruction)) :
                LET l == EnvironmentBlock(client.systemInstruction)[i]
                IN  /\ l.name \in EnvNames
                    /\ Sensitive(l.name) => l.data = S_redacted
          /\ env["GX_API_TOKEN"] # Empty =>
                ~Shows(client.systemInstruction, env["GX_API_TOKEN"])
          /\ ~HasText(client.systemInstruction, "GX_API_TOKEN")

\* GX_API_TOKEN is set and the instruction has an ENVIRONMENT block, which
\* shows SHELL and does not show the token
C12_Witness ==
    /\ client.constructed
    /\ revision = "version.go"
    /\ env["GX_API_TOKEN"] = S_secret
    /\ goos = "linux"
    /\ \E i \in 1..Len(EnvironmentBlock(client.systemInstruction)) :
          /\ EnvironmentBlock(client.systemInstruction)[i].name = "SHELL"
          /\ EnvironmentBlock(client.systemInstruction)[i].data = env["SHELL"]
    /\ ~Shows(client.systemInstruction, S_secret)

\* the registry, enabled, has answered a cat of the path p
CatDone(p) ==
    /\ toolOutcome.done
    /\ toolCall.enabled
    /\ toolCall.name = "cat"
    /\ toolCall.args.path = StringValue(p)

\* C13: cat of a regular file that can be read succeeds for every size up
\* to and including 102400 bytes; for every size of 102401 bytes or more it
\* returns an error without reading the file; a directory is always an
\* error.
C13_CatSizeGuard ==
    \A p \in Paths :
       CatDone(p) =>
          /\ (StatKind(p) = "file" /\ StatSize(p) <= 102400 /\ Readable(p)) =>
                /\ toolOutcome.outcome.err = ""
                /\ toolOutcome.outcome.result = <<"content">> \o p
                /\ toolOutcome.outcome.op = "executeCat: os.ReadFile"
          /\ (StatKind(p) = "file" /\ StatSize(p) >= 102401) =>
                /\ toolOutcome.outcome.err = "file too large"
                /\ toolOutcome.outcome.result = <<>>
                /\ toolOutcome.outcome.op = "executeCat"
          /\ StatKind(p) = "dir" =>
                /\ toolOutcome.outcome.err = "cannot cat a directory"
                /\ toolOutcome.outcome.op = "executeCat"

\* a file of exactly 102400 bytes was read
C13_Witness ==
    /\ CatDone(S_full)
    /\ StatSize(S_full) = 102400
    /\ toolOutcome.outcome.err = ""
    /\ toolOutcome.outcome.result = <<"content">> \o S_full

\* the indices, from 0, of the newlines among the first 200 characters
NewlinesBeforeCutoff(text) == {i \in 0..199 : i < Len(text) /\ text[i + 1] = "\n"}

\* the first n characters followed by the truncation marker
CutAt(text, n) == SubSeq(text, 1, n) \o S_ellipsis

\* the greatest element of a non-empty set of numbers
Greatest(S) == CHOOSE x \in S : \A y \in S : y <= x

\* C14 as stated: a result of more than 200 characters is cut back to its
\* last newline whenever that newline is one of the 50 characters before the
\* cutoff (indices 150 to 199), and at 200 otherwise.
C14_CutsBackWithin50 ==
    resultStr.done =>
       /\ Len(toolText) <= 200 => resultStr.text = toolText
       /\ Len(toolText) > 200 =>
             LET nl == NewlinesBeforeCutoff(toolText)
             IN  IF nl # {} /\ Greatest(nl) >= 150
                 THEN resultStr.text = CutAt(toolText, Greatest(nl))
                 ELSE resultStr.text = CutAt(toolText, 200)

\* C14, amended: a result of at most 200 characters is unchanged; a longer
\* one is cut back to the last newline among its first 200 characters when
\* the index of that newline, counted from 0, is greater than 150 (one of
\* the 49 characters before the cutoff), and at exactly 200 otherwise; the
\* marker is appended.
C14_PreviewTruncation ==
    resultStr.done =>
       /\ Len(toolText) <= 200 => resultStr.text = toolText
       /\ Len(toolText) > 200 =>
             LET nl == NewlinesBeforeCutoff(toolText)
             IN  IF nl # {} /\ Greatest(nl) >= 151
                 THEN resultStr.text = CutAt(toolText, Greatest(nl))
                 ELSE resultStr.text = CutAt(toolText, 200)

\* a result of 250 characters whose only newline is at index 160 is cut to
\* 160 characters and the marker
C14_Witness ==
    /\ resultStr.done
    /\ toolText = TextOf(250, {160})
    /\ resultStr.text = [i \in 1..160 |-> "x"] \o S_ellipsis

\* the first n elements of a sequence, or all of it when it is shorter
FirstSections(log, n) == SubSeq(log, 1, IF Len(log) < n THEN Len(log) ELSE n)

\* C15: for the same client, prompt and history, the first two sections
\* BuildPrompt renders (the system instruction, and the history block when
\* there is history) are those Generate records in its transcript and
\* writes to the file, and BuildPrompt itself sends nothing to the model
\* and runs no tool.
C15_PreviewMatchesTranscript ==
    preview.done =>
       /\ Len(preview.parts) >= 2
       /\ preview.parts[1].header = "SYSTEM INSTRUCTION"
       /\ Len(historyContext) > 0 => preview.parts[2].header = "HISTORY CONTEXT"
       /\ pc = "ready" => (sent = <<>> /\ received = <<>> /\ dispatched = <<>>)
       /\ pc \in {"interpret", "done"} =>
             FirstSections(preview.parts, 2) = FirstSections(promptLog, 2)
       /\ stored.written =>
             FirstSections(preview.parts, 2) = FirstSections(stored.content, 2)

\* with two history entries, BuildPrompt was called and Generate then ran a
\* tool-calling turn and returned
C15_Witness ==
    /\ preview.done
    /\ pc = "done"
    /\ Len(historyContext) = 2
    /\ Len(sent) = 2
    /\ stored.written
    /\ preview.parts[2] = stored.content[2]
    /\ preview.parts[2].header = "HISTORY CONTEXT"
    /\ Len(preview.parts[2].lines) = 4

\* the maxHistory GX_HISTORY stands for: its value when it is a positive
\* integer, else 10
ExpectedMaxHistory ==
    CASE env["GX_HISTORY"] = S_two -> 2
      [] env["GX_HISTORY"] = S_plusthree -> 3
      [] env["GX_HISTORY"] = S_twelve -> 12
      [] OTHER -> 10

\* the entries the store held before the first Append (none when the file
\* was absent or malformed), followed by those appended
AllEntries ==
    (IF histFileAtStart.kind = "entries" THEN histFileAtStart.entries ELSE <<>>) \o appended

\* the last n elements of a sequence, or all of it when it is shorter
LastN(seq, n) == IF Len(seq) <= n THEN seq ELSE SubSeq(seq, Len(seq) - n + 1, Len(seq))

\* C16: after one or more calls of Append, from whatever the store held,
\* the persisted history holds at most maxHistory entries (GX_HISTORY when
\* it is a positive integer, else 10): the most recent ones of those stored
\* and appended, oldest first.
C16_HistoryBounded ==
    (pc = "history" /\ Len(appended) >= 1) =>
       /\ maxHistory = ExpectedMaxHistory
       /\ histFile.kind = "entries"
       /\ Len(histFile.entries) <= ExpectedMaxHistory
       /\ histFile.entries = LastN(AllEntries, ExpectedMaxHistory)
       /\ Last(histFile.entries) = Last(appended)

\* with GX_HISTORY unset, a store of 12 entries and 11 calls of Append, the
\* store holds the last 10 entries appended
C16_Witness ==
    /\ pc = "history"
    /\ env["GX_HISTORY"] = Empty
    /\ histFileAtStart = EntriesFile(Stored(12))
    /\ Len(appended) = 11
    /\ Len(histFile.entries) = 10
    /\ histFile.entries = SubSeq(appended, 2, 11)

(***************************************************************************)
(* cli.Run.                                                                *)
(***************************************************************************)
\* the invocation is a generation: Run reaches generateCommand
Generating ==
    /\ ~flags.version
    /\ ~flags.c
    /\ ~flags.x
    /\ ~flags.p
    /\ prompt # Empty

\* C17: an absent or malformed history file is an empty history: Load
\* gives no entries and no error, a generation runs with an empty history
\* context (no HISTORY CONTEXT section, no seeded chat turns), nothing about
\* the history reaches stderr, and a generation that yields a command ends
\* as on a first run: exit status 0 without -y, empty stderr, and a history
\* file holding exactly the new entry.
C17_CorruptHistoryIsEmpty ==
    (invocation = 1 /\ histFileAtStart.kind \in {"absent", "malformed"}) =>
        /\ Load(histFileAtStart) = [entries |-> <<>>, err |-> ""]
        /\ GetRecentContext(histFileAtStart, 3) = [entries |-> <<>>, err |-> ""]
        /\ historyContext = <<>>
        /\ seedHistory(historyContext) = <<>>
        /\ \A i \in 1..Len(promptLog) : promptLog[i].header # "HISTORY CONTEXT"
        /\ \A i \in 1..Len(stderr) :
              /\ stderr[i].what \in {"Error: %v", "usage", "--- Executing ---",
                                     "Execution error: %v"}
              /\ stderr[i].msg # "failed to read history"
        /\ (Generating /\ clientOk /\ pc = "exit" /\ err = "") =>
              /\ histFile = EntriesFile(<<Entry(prompt, result)>>)
              /\ stagedFile = StageCommand(result)
              /\ ~flags.y => (exitCode = 0 /\ stderr = <<>> /\ executed = <<>>)

\* a generation on a malformed history file has yielded a command after a
\* tool turn and the invocation has ended
C17_Witness ==
    /\ invocation = 1
    /\ histFileAtStart = MalformedFile
    /\ Generating
    /\ ~flags.y
    /\ pc = "exit"
    /\ err = ""
    /\ Len(sent) > 1
    /\ exitCode = 0
    /\ histFile = EntriesFile(<<Entry(prompt, result)>>)

\* the invocation is gx -x: Run reaches executeStaged
ExecutingStaged ==
    /\ ~flags.version
    /\ ~flags.c
    /\ flags.x

\* C18: gx -x hands exactly the staged text to the shell, once: what
\* GetStagedCommand reads is what StageCommand wrote, so after a generation
\* it is the command that generation returned; it sends nothing to the
\* model, dispatches no tool and writes neither file.  With nothing staged
\* it prints an error, executes nothing and exits 1.  A generation without
\* -y executes nothing and, when it yields a command, stages it.
C18_ExecuteStaged ==
    /\ [](ExecutingStaged =>
            /\ invocation = 1 => (sent = <<>> /\ received = <<>> /\ dispatched = <<>>)
            /\ pc = "run" => executed = <<>>
            /\ pc = "exit" =>
                  IF stagedFileAtStart.exists
                  THEN /\ executed = <<Execution(env, goos, stagedFileAtStart.command)>>
                       /\ GetStagedCommand(StageCommand(stagedFileAtStart.command)).command
                              = stagedFileAtStart.command
                       /\ (invocation = 2 /\ Len(sent) > 0 /\ err = "") =>
                              stagedFileAtStart.command = result
                  ELSE /\ executed = <<>>
                       /\ exitCode = 1
                       /\ Len(stderr) = 1
                       /\ stderr[1].what = "Error: %v"
                       /\ stdout = <<>>)
    /\ [][(ExecutingStaged /\ pc = "run") =>
              UNCHANGED <<sent, received, dispatched, stored, histFile, stagedFile>>]_vars
    /\ []((Generating /\ ~flags.y /\ invocation = 1) =>
            /\ executed = <<>>
            /\ (clientOk /\ pc = "exit" /\ err = "") => stagedFile = StageCommand(result))

\* a generation without -y has staged its command and a later gx -x has
\* executed it
C18_Witness ==
    /\ invocation = 2
    /\ pc = "exit"
    /\ Len(sent) > 1
    /\ result # Empty
    /\ stagedFileAtStart = StageCommand(result)
    /\ stagedFileAtStart # StageCommand(S_staged)
    /\ executed = <<Execution(env, goos, result)>>
    /\ exitCode = 3

\* the invocation is gx -p with a prompt: Run reaches the preview branch
Previewing ==
    /\ ~flags.version
    /\ ~flags.c
    /\ ~flags.x
    /\ flags.p
    /\ prompt # Empty

\* C19: gx -p with a prompt sends no message to the model, receives none,
\* dispatches no tool, executes no command, writes no prompt log and leaves
\* the staging file and the history file as it found them; once the client
\* is constructed it prints exactly what BuildPrompt returns for the prompt
\* and the last three history entries and exits 0 (a client that cannot be
\* constructed is an error and exit status 1, with nothing printed).
C19_PreviewOnly ==
    Previewing =>
        /\ sent = <<>>
        /\ received = <<>>
        /\ dispatched = <<>>
        /\ executed = <<>>
        /\ ~stored.written
        /\ ~toolOutcome.done
        /\ stagedFile = stagedFileAtStart
        /\ histFile = histFileAtStart
        /\ appended = <<>>
        /\ (pc = "exit" /\ clientOk) =>
              /\ exitCode = 0
              /\ stderr = <<>>
              /\ stdout = <<Out("preview", "", Empty,
                                BuildPrompt(NewClient(cfg, env, goos, uname, revision), env,
                                            goos, revision, prompt,
                                            GetRecentContext(histFileAtStart, 3).entries))>>
        /\ (pc = "exit" /\ ~clientOk) =>
              /\ exitCode = 1
              /\ stdout = <<>>

\* gx -p has printed a preview with a history section and exited, with a
\* command staged and a history stored before it
C19_Witness ==
    /\ Previewing
    /\ pc = "exit"
    /\ exitCode = 0
    /\ stagedFileAtStart = StageCommand(S_staged)
    /\ histFileAtStart = EntriesFile(Stored(4))
    /\ Len(stdout) = 1
    /\ Len(stdout[1].parts) = 3
    /\ stdout[1].parts[2].header = "HISTORY CONTEXT"
    /\ Len(stdout[1].parts[2].lines) = 6

(***************************************************************************)
(* Termination of Generate.                                                *)
(***************************************************************************)
\* Generate has returned because a send failed
SendFailed == err \in TransportErrors /\ Len(sent) = Len(received) + 1

\* C20: the engine counts turns but never stops on the count.  When every
\* send returns and the model stops asking for tools, Generate returns; it
\* returns only on a response that is malformed, on a response without
\* function calls, or on a failed send; and against a model that puts a
\* function call in every answer it returns on a failed send only: in every
\* turn it is followed for, the engine has sent back one result per call.
C20_NoTurnLimit ==
    /\ (model = "scripted" /\ pc = "ready") ~> (pc = "done")
    /\ [](pc = "done" =>
            \/ SendFailed
            \/ /\ err \in ProtocolErrors
               /\ IsMalformed(Last(received)) = err
            \/ /\ err = ""
               /\ IsMalformed(Last(received)) = ""
               /\ functionCalls(Last(received).parts) = <<>>)
    /\ [](model = "calling" =>
            /\ pc = "done" => SendFailed
            /\ pc = "interpret" =>
                  /\ Len(functionCalls(resp.parts)) > 0
                  /\ turnNum = Len(received)
                  /\ Len(sent) = turnNum
                  /\ \A t \in 1..(turnNum - 1) :
                        /\ sent[t + 1].kind = "functionResponses"
                        /\ Len(sent[t + 1].parts) = Len(functionCalls(received[t].parts)))

\* the calling model has been answered in MaxCalls turns, more than the
\* scripted model ever calls in, and Generate has not returned
C20_Witness ==
    /\ model = "calling"
    /\ pc = "interpret"
    /\ turnNum = MaxCalls
    /\ turnNum > MaxTurns + 1
    /\ Len(sent) = MaxCalls
    /\ Len(dispatched) >= MaxCalls - 1
    /\ sent[MaxCalls].kind = "functionResponses"
    /\ err = ""

(***************************************************************************)
(* The history store within and across invocations.                       *)
(***************************************************************************)
\* the accesses of kind op in a log
OpsOf(log, op) == SelectSeq(log, LAMBDA a : a.op = op)

\* C21 as stated: a generation that yields a command has read the store
\* once and written it once.
C21_ReadOnce ==
    (Generating /\ clientOk /\ pc = "exit" /\ err = "") =>
        /\ Len(OpsOf(storeLog, "read")) = 1
        /\ Len(OpsOf(storeLog, "write")) = 1

\* C21: in a generating invocation the store is read once before Generate
\* is called, by GetRecentContext; Generate neither reads nor writes it;
\* after Generate has returned a command the caller's Append reads the
\* store a second time and then writes it once, and after Generate has
\* returned an error the store is not accessed again.
C21_StoreAccesses ==
    /\ []((Generating /\ invocation = 1) =>
            /\ pc = "run" => storeLog = <<>>
            /\ pc \in {"ready", "interpret", "done"} => storeLog = GetRecentContextOps
            /\ pc = "exit" =>
                  storeLog = IF clientOk /\ err = ""
                             THEN <<StoreOp("read", "GetRecentContext"),
                                    StoreOp("read", "Append"),
                                    StoreOp("write", "Append")>>
                             ELSE <<StoreOp("read", "GetRecentContext")>>)
    /\ [][(pc = "ready" \/ pc = "interpret") =>
              UNCHANGED <<storeLog, histFile, stagedFile>>]_vars

\* a generation on a stored history has yielded a command after a tool
\* turn, and the caller has appended it
C21_Witness ==
    /\ Generating
    /\ invocation = 1
    /\ pc = "exit"
    /\ err = ""
    /\ Len(sent) > 1
    /\ histFileAtStart = EntriesFile(Stored(4))
    /\ Len(OpsOf(storeLog, "read")) = 2
    /\ Len(OpsOf(storeLog, "write")) = 1
    /\ Last(storeLog) = StoreOp("write", "Append")
    /\ Last(histFile.entries) = Entry(prompt, result)

(***************************************************************************)
(* The chat session.                                                       *)
(***************************************************************************)
\* C22: when the prompt is sent, the turns the chat session already holds
\* are, for each history entry in the order given, a user turn with the
\* entry's prompt and then a model turn with its response: twice as many
\* turns as entries, none for an empty history; and no step of Generate
\* changes the history it was given.
C22_SeedHistory ==
    /\ [](Len(sent) > 0 =>
            /\ Len(chatHistory) = 2 * Len(historyContext)
            /\ \A i \in 1..Len(historyContext) :
                  /\ chatHistory[2 * i - 1] =
                        [role |-> "user", text |-> historyContext[i].Prompt]
                  /\ chatHistory[2 * i] =
                        [role |-> "model", text |-> historyContext[i].Response])
    /\ [](Len(sent) = 0 => chatHistory = <<>>)
    /\ [][historyContext' = historyContext]_vars

\* the prompt has been sent on a session seeded with two entries
C22_Witness ==
    /\ pc = "interpret"
    /\ Len(sent) = 1
    /\ Len(historyContext) = 2
    /\ historyContext[1] # historyContext[2]
    /\ Len(chatHistory) = 4
    /\ chatHistory[1].text = historyContext[1].Prompt
    /\ chatHistory[4].text = historyContext[2].Response

(***************************************************************************)
(* The loop over the function calls of a turn.                            *)
(***************************************************************************)
\* the calls of a response whose arguments parse, in the order received
ParsedCalls(r) == SelectSeq(CallsOf(r), LAMBDA fc : ParseFunctionCall(fc).err = "")

\* the ExecuteTool calls made in turn t, in the order made
DispatchedIn(t) == SelectSeq(dispatched, LAMBDA d : d.turn = t)

\* C23: the ExecuteTool calls of a turn are, in the order received, one per
\* function call whose arguments parse, duplicates included, and none for a
\* call that fails to parse; they are made turn after turn; and the one
\* send of a turn comes with an outcome recorded for every call of the turn,
\* dispatched or not.
C23_DispatchPerCall ==
    /\ \A d \in 1..(Len(dispatched) - 1) : dispatched[d].turn <= dispatched[d + 1].turn
    /\ \A i \in 1..Len(received) :
          LET parsed == ParsedCalls(received[i])
              made == DispatchedIn(i)
          IN  IF Len(sent) >= i + 1
              THEN /\ Len(made) = Len(parsed)
                   /\ \A j \in 1..Len(parsed) :
                         /\ made[j].name = parsed[j].name
                         /\ made[j].args = parsed[j].args
                         /\ made[j].outcome =
                               ExecuteTool(client.tools, parsed[j].name, parsed[j].args)
                   /\ Len(sent[i + 1].parts) = Len(CallsOf(received[i]))
                   /\ \A j \in 1..Len(CallsOf(received[i])) :
                         sent[i + 1].parts[j].key \in {"result", "error"}
              ELSE made = <<>>

\* a turn of three calls, the first and the third identical and the second
\* with arguments that do not parse, has been answered
C23_Witness ==
    /\ client.tools
    /\ Len(received) >= 1
    /\ received[1] = Response(<<CallPart("pwd", NoArgs),
                                CallPart("ls", Args(Absent, NumberValue(S_NaN))),
                                CallPart("pwd", NoArgs)>>)
    /\ Len(sent) = 2
    /\ Len(sent[2].parts) = 3
    /\ Len(dispatched) = 2
    /\ dispatched[1] = dispatched[2]
    /\ dispatched[1].name = "pwd"

(***************************************************************************)
(* The arguments of the tools.                                             *)
(***************************************************************************)
\* the argument is no usable path: absent, not a string, or the empty string
NoPath(v) == v.t # "string" \/ v.v = Empty

\* C24: with tools enabled, stat and cat given a path that is absent, not a
\* string or empty return "<tool> requires a path argument" and perform no
\* file operation; ls lists "." when its path is absent (or unusable) and
\* does not recurse when recursive is absent (or not a bool), and lists a
\* given path as given; a name outside the six tools is an "unknown tool"
\* error.
C24_ArgumentValidation ==
    (toolOutcome.done /\ toolCall.enabled) =>
        LET name == toolCall.name
            args == toolCall.args
            out == toolOutcome.outcome
        IN  /\ (name = "stat" /\ NoPath(args.path)) =>
                  out = Outcome(<<>>, "stat requires a path argument", "none")
            /\ (name = "cat" /\ NoPath(args.path)) =>
                  out = Outcome(<<>>, "cat requires a path argument", "none")
            /\ (name \in {"stat", "cat"} /\ ~NoPath(args.path)) =>
                  out.op \in {"executeStat", "executeCat", "executeCat: os.ReadFile"}
            /\ (name = "ls" /\ NoPath(args.path) /\ args.recursive # BoolValue(TRUE)) =>
                  out = Outcome(<<"entries", ".">>, "", "executeLs")
            /\ (name = "ls" /\ NoPath(args.path) /\ args.recursive = BoolValue(TRUE)) =>
                  out = Outcome(<<"walk", ".">>, "", "executeLs")
            /\ (name = "ls" /\ ~NoPath(args.path)) =>
                  out = executeLs(args.path.v, args.recursive = BoolValue(TRUE))
            /\ name \notin {"pwd", "ls", "stat", "cat", "ps", "uptime"} =>
                  out = Outcome(<<>>, "unknown tool", "none")

\* cat was called with a number for its path and recursive absent
C24_Witness ==
    /\ toolOutcome.done
    /\ toolCall.enabled
    /\ toolCall.name = "cat"
    /\ toolCall.args = Args(NumberValue(S_one), Absent)
    /\ toolOutcome.outcome.err = "cat requires a path argument"
    /\ toolOutcome.outcome.op = "none"

(***************************************************************************)
(* Verbosity.                                                              *)
(***************************************************************************)
\* the client with its verbose flag set to v
WithVerbose(c, v) == [c EXCEPT !.verbose = v]

\* the messages a client of verbosity v sends for the responses received
ReplaySent(v) ==
    <<TextMessage(prompt)>>
    \o [i \in 1..(Len(sent) - 1) |->
           FunctionResponsesMessage(
               functionResponses(WithVerbose(client, v), CallsOf(received[i]), i))]

\* the ExecuteTool calls a client of verbosity v makes for them
ReplayDispatched(v) ==
    Flatten([i \in 1..(Len(sent) - 1) |->
                toolCalls(WithVerbose(client, v), CallsOf(received[i]), i)])

\* C25: the [tool] lines are printed only when verbose is on, and nothing
\* else depends on the flag: for the responses received, the sends, the
\* batches of function responses and the dispatches are those of a client
\* with verbose on and those of a client with verbose off, and the command
\* or error returned is determined by the responses and the failed send
\* alone.
C25_VerboseIsAdvisory ==
    (client.constructed /\ Len(sent) > 0) =>
        /\ \A v \in BOOLEAN :
              /\ sent = ReplaySent(v)
              /\ dispatched = ReplayDispatched(v)
        /\ ~client.verbose => diagnostics = <<>>
        /\ (client.verbose /\ Len(sent) > 1) =>
              /\ Len(diagnostics) >= Len(sent) - 1 + Len(dispatched)
              /\ diagnostics[1].what = "[tool] Received %d function call(s)"
        /\ pc = "done" =>
              /\ (Len(sent) > Len(received)) <=> (err \in TransportErrors)
              /\ (Len(sent) = Len(received) /\ IsMalformed(Last(received)) # "") =>
                    (err = IsMalformed(Last(received)) /\ result = Empty)
              /\ (Len(sent) = Len(received) /\ IsMalformed(Last(received)) = "") =>
                    (err = "" /\ result = finalCommand(textParts(Last(received).parts)))

\* a verbose client has reported a failed and a successful tool call and
\* returned a command
C25_Witness ==
    /\ client.verbose
    /\ client.tools
    /\ pc = "done"
    /\ err = ""
    /\ result # Empty
    /\ Len(dispatched) = 2
    /\ dispatched[1].outcome.err # ""
    /\ dispatched[2].outcome.err = ""
    /\ \E d \in 1..Len(diagnostics) : diagnostics[d].what = "[tool] %s -> error: %s"
    /\ \E d \in 1..Len(diagnostics) : diagnostics[d].what = "[tool] %s -> %s"

(***************************************************************************)
(* Text beside function calls.                                             *)
(***************************************************************************)
\* the text is held by a line of a block of turn t in the log
LoggedIn(log, t, text) ==
    \E b \in 1..Len(log) :
       /\ log[b].turn = t
       /\ \E l \in 1..Len(log[b].lines) : Contains(log[b].lines[l].data, text)

\* C26 as stated: once a response holding function calls and text has been
\* acted on, each of its text parts is in the transcript of its turn, the
\* one processResponse accumulates.
C26_MixedTextLogged ==
    \A i \in 1..Len(received) :
       (Len(sent) >= i + 1 /\ Len(CallsOf(received[i])) > 0) =>
          \A j \in 1..Len(TextsOf(received[i])) :
             LoggedIn(respLog, i, TextsOf(received[i])[j].text)

(***************************************************************************)
(* Failures of the invocation.                                             *)
(***************************************************************************)
\* the invocation needed a client, or ran Generate, and that failed
FailedInvocation ==
    /\ ~flags.version
    /\ ~flags.c
    /\ ~flags.x
    /\ prompt # Empty
    /\ pc = "exit"
    /\ ~clientOk \/ (~flags.p /\ err # "")

\* C27: when the client cannot be constructed or Generate returns an error,
\* Run prints one "Error: ..." line on stderr and nothing on stdout,
\* returns 1, leaves the staging file and the history file as it found
\* them and executes nothing, with -y or without; a later gx -x then runs
\* the command staged before the failed invocation, or reports that nothing
\* is staged.
C27_FailureLeavesFiles ==
    /\ (invocation = 1 /\ FailedInvocation) =>
          /\ exitCode = 1
          /\ Len(stderr) = 1
          /\ stderr[1].what = "Error: %v"
          /\ stderr[1].msg = (IF clientOk THEN err ELSE "failed to create client")
          /\ stdout = <<>>
          /\ executed = <<>>
          /\ appended = <<>>
          /\ stagedFile = stagedFileAtStart
          /\ histFile = histFileAtStart
          /\ GetStagedCommand(stagedFile) = GetStagedCommand(stagedFileAtStart)
    /\ (invocation = 2 /\ err # "") =>
          /\ stagedFileAtStart \in {NotStaged, StageCommand(S_staged)}
          /\ stagedFile = stagedFileAtStart
          /\ pc = "exit" =>
                IF stagedFileAtStart.exists
                THEN executed = <<Execution(env, goos, S_staged)>>
                ELSE executed = <<>> /\ exitCode = 1

\* Generate failed on the send of the function responses, and a later
\* gx -x has run the command that was staged before
C27_Witness ==
    /\ invocation = 2
    /\ pc = "exit"
    /\ err = "failed to send function responses"
    /\ Len(dispatched) > 0
    /\ stagedFile = StageCommand(S_staged)
    /\ executed = <<Execution(env, goos, S_staged)>>
    /\ exitCode = 0

(***************************************************************************)
(* A final response without a command.                                     *)
(***************************************************************************)
\* Generate has returned from a final response whose text parts, if any,
\* are all whitespace
BlankFinal ==
    /\ invocation = 1
    /\ Generating
    /\ pc \in {"done", "exit"}
    /\ Len(received) > 0
    /\ IsMalformed(Last(received)) = ""
    /\ Len(CallsOf(Last(received))) = 0
    /\ \A j \in 1..Len(TextsOf(Last(received))) :
          TrimSpace(TextsOf(Last(received))[j].text) = Empty

FinalBlocks(log) == SelectSeq(log, LAMBDA b : b.header = "MODEL RESPONSE (FINAL)")

\* the caller's part: the empty command is printed, staged, appended to the
\* history and, with -y, executed
EmptyCommandHandled ==
    /\ stdout = <<Out("command", "", Empty, <<>>)>>
    /\ stagedFile = StageCommand(Empty)
    /\ appended = <<Entry(prompt, Empty)>>
    /\ Last(Load(histFile).entries) = Entry(prompt, Empty)
    /\ \A i \in 1..Len(stderr) : stderr[i].what # "Error: %v"
    /\ IF flags.y
       THEN executed = <<Execution(env, goos, Empty)>>
       ELSE executed = <<>> /\ exitCode = 0

\* C30 (as stated): a final response with no function calls and no text, or
\* only whitespace text, records no final-answer block in the transcript.
C30_NoFinalBlock ==
    BlankFinal => FinalBlocks(respLog) = <<>>

\* C30: a final response with no function calls and no text parts, or only
\* whitespace text, makes Generate return the empty string with no error;
\* processResponse appends no final-answer block when the response has no
\* text part, and a final-answer block with an empty body when it has
\* whitespace text parts; the file Generate writes holds no final-answer
\* block; Run prints, stages and appends the empty command and executes it
\* with -y, without reporting a failure.
C30_EmptyCommand ==
    BlankFinal =>
       /\ err = ""
       /\ result = Empty
       /\ IF TextsOf(Last(received)) = <<>>
          THEN FinalBlocks(respLog) = <<>>
          ELSE /\ FinalBlocks(respLog) = <<Last(respLog)>>
               /\ Last(respLog).lines = <<Line("", "", Empty)>>
       /\ stored.written
       /\ FinalBlocks(stored.content) = <<>>
       /\ pc = "exit" => EmptyCommandHandled

\* the model answered with whitespace only and gx -y executed the empty
\* command
C30_Witness ==
    /\ BlankFinal
    /\ pc = "exit"
    /\ TextsOf(Last(received)) # <<>>
    /\ flags.y
    /\ executed = <<Execution(env, goos, Empty)>>
    /\ stagedFile = StageCommand(Empty)

(***************************************************************************)
(* A session of invocations on one home directory: gx "prompt", gx -y      *)
(* "prompt", gx -x and gx -c, one after the other, starting with no        *)
(* history file and no staging file.                                       *)
(***************************************************************************)
MaxInvocations == 3

StoreFlags ==
    {[version |-> FALSE, c |-> c, x |-> x, p |-> FALSE, y |-> y] :
        c \in BOOLEAN, x \in BOOLEAN, y \in BOOLEAN}

InitStore ==
    /\ env \in {DefaultEnv, [DefaultEnv EXCEPT !["GX_HISTORY"] = S_two]}
    /\ goos = "linux"
    /\ uname = [ok |-> TRUE, out |-> S_generic]
    /\ cfg = [Verbose |-> FALSE, NoTools |-> FALSE]
    /\ revision = "client.go"
    /\ client = NoClient
    /\ historyContext = <<>>
    /\ prompt = S_prompt
    /\ pc = "run"
    /\ model = "brief"
    /\ IdleEngine
    /\ IdleTools
    /\ IdleFormat
    /\ flags \in StoreFlags
    /\ clientOk = TRUE
    /\ histFile = NoFile
    /\ histFileAtStart = NoFile
    /\ stagedFile = NotStaged
    /\ stagedFileAtStart = NotStaged
    /\ invocation = 1
    /\ maxHistory = 0
    /\ appended = <<>>
    /\ stdout = <<>>
    /\ stderr = <<>>
    /\ executed = <<>>
    /\ exitCode = -1
    /\ storeLog = <<>>
    /\ appenders = NoAppenders

\* the next invocation of the session: a new process, the same files
RunAgain ==
    /\ pc = "exit"
    /\ invocation < MaxInvocations
    /\ invocation' = invocation + 1
    /\ flags' \in StoreFlags
    /\ histFileAtStart' = histFile
    /\ stagedFileAtStart' = stagedFile
    /\ client' = NoClient
    /\ historyContext' = <<>>
    /\ resp' = NoResponse
    /\ turnNum' = 0
    /\ promptLog' = <<>>
    /\ respLog' = <<>>
    /\ chatHistory' = <<>>
    /\ sent' = <<>>
    /\ received' = <<>>
    /\ dispatched' = <<>>
    /\ stored' = [written |-> FALSE, content |-> <<>>]
    /\ result' = Empty
    /\ err' = ""
    /\ diagnostics' = <<>>
    /\ stdout' = <<>>
    /\ stderr' = <<>>
    /\ executed' = <<>>
    /\ exitCode' = -1
    /\ storeLog' = <<>>
    /\ pc' = "run"
    /\ UNCHANGED <<envVars, appenders, formatVars, previewVars, toolVars, prompt, clientOk,
                   histFile, stagedFile, maxHistory, appended>>

NextStore ==
    \/ RunClear
    \/ RunExecuteStaged
    \/ RunGenerate
    \/ GenerateSendFails
    \/ GenerateSendOk
    \/ ProcessProtocolError
    \/ ProcessFunctionCallsSendOk
    \/ ProcessFunctionCallsSendFails
    \/ ProcessFinal
    \/ RunGenerateFailed
    \/ RunGenerated
    \/ RunAgain

SpecStore == InitStore /\ [][NextStore]_vars

\* C28: after any sequence of generations, gx -x executions and gx -c, the
\* staging file exists exactly when the history file holds an entry, and
\* the staged command is the response of the newest history entry; gx -c
\* returns 0 and leaves neither file, whether or not they existed.
C28_StagedMatchesHistory ==
    /\ stagedFile.exists <=> Load(histFile).entries # <<>>
    /\ stagedFile.exists =>
          stagedFile.command = Last(Load(histFile).entries).Response
    /\ (pc = "exit" /\ flags.c) =>
          /\ exitCode = 0
          /\ histFile = NoFile
          /\ stagedFile = NotStaged

\* a generation, gx -c and a second generation: one entry in the history,
\* and its response is the staged command
C28_Witness ==
    /\ invocation = 3
    /\ pc = "exit"
    /\ Len(appended) = 2
    /\ Len(Load(histFile).entries) = 1
    /\ stagedFile = StageCommand(appended[2].Response)
    /\ appended[1].Response # appended[2].Response

(***************************************************************************)
(* Invocations that run at the same time on one history file.  Append is   *)
(* a Load followed by a Save with no lock between or around them, so the   *)
(* steps of two processes interleave in any order.                         *)
(***************************************************************************)
MaxAppenders == 2

Appenders == 1..MaxAppenders

AppendPrompts == {S_prompt, S_staged}

AppendResponses == {S_command, S_staged}

InitAppend ==
    /\ env \in {DefaultEnv, [DefaultEnv EXCEPT !["GX_HISTORY"] = S_two]}
    /\ goos = "linux"
    /\ uname = [ok |-> TRUE, out |-> S_generic]
    /\ cfg = [Verbose |-> FALSE, NoTools |-> FALSE]
    /\ revision = "client.go"
    /\ client = NoClient
    /\ historyContext = <<>>
    /\ prompt = S_prompt
    /\ pc = "append"
    /\ model = "brief"
    /\ IdleEngine
    /\ IdleTools
    /\ IdleFormat
    /\ flags = [version |-> FALSE, c |-> FALSE, x |-> FALSE, p |-> FALSE, y |-> FALSE]
    /\ clientOk = TRUE
    /\ histFile \in {NoFile, MalformedFile, EntriesFile(Stored(1)), EntriesFile(Stored(2))}
    /\ histFileAtStart = histFile
    /\ stagedFile = NotStaged
    /\ stagedFileAtStart = NotStaged
    /\ invocation = 1
    /\ maxHistory = NewManager(env)
    /\ appended = <<>>
    /\ stdout = <<>>
    /\ stderr = <<>>
    /\ executed = <<>>
    /\ exitCode = -1
    /\ storeLog = <<>>
    /\ appenders = [i \in Appenders |-> [at |-> "idle", entries |-> <<>>]]

AppendFrame ==
    UNCHANGED <<envVars, formatVars, previewVars, toolVars, engineVars, client,
                historyContext, prompt, pc, flags, clientOk, histFileAtStart, stagedFile,
                stagedFileAtStart, invocation, maxHistory, stdout, stderr, executed,
                exitCode>>

\* the first half of Append in one process: Load, then append to the slice
AppendLoad ==
    \E i \in Appenders, p \in AppendPrompts, r \in AppendResponses :
       /\ appenders[i].at = "idle"
       /\ LET loaded == Load(histFile)
              entries == IF loaded.err # "" THEN <<>> ELSE loaded.entries
          IN  appenders' = [appenders EXCEPT
                              ![i] = [at |-> "loaded",
                                      entries |-> Append(entries, Entry(p, r))]]
       /\ storeLog' = Append(storeLog, StoreOp("read", i))
       /\ UNCHANGED <<histFile, appended>>
       /\ AppendFrame

\* the second half of Append in one process: Save of the slice it holds
AppendSave ==
    \E i \in Appenders :
       /\ appenders[i].at = "loaded"
       /\ histFile' = Save(maxHistory, appenders[i].entries)
       /\ appended' = Append(appended, Last(appenders[i].entries))
       /\ appenders' = [appenders EXCEPT ![i].at = "saved"]
       /\ storeLog' = Append(storeLog, StoreOp("write", i))
       /\ AppendFrame

NextAppend ==
    \/ AppendLoad
    \/ AppendSave

SpecAppend == InitAppend /\ [][NextAppend]_vars

\* C29 (as stated): every entry appended to the history stays in it until
\* the size bound displaces it, also when two invocations interleave the
\* load and save steps of their Appends: the file holds the newest
\* maxHistory of the entries it had at the start followed by the appended
\* entries in the order of their saves.
C29_NoAppendLost ==
    Load(histFile).entries = LastN(Load(histFileAtStart).entries \o appended, maxHistory)

=============================================================================
